---- MODULE Spec2Model ----
(***************************************************************************)
(* Session orchestrator of the Discord bot: the per-channel process slot   *)
(* machine of ClaudeManager together with DiscordBot.handleMessage, the    *)
(* stdout stream decoder, and the approval protocol of PermissionManager.  *)
(***************************************************************************)
EXTENDS Integers, Sequences, FiniteSets, Bags, TLC

\* ------------------------------------------------------------------------
\* Bounds
\* ------------------------------------------------------------------------
\* messages handled in a behaviour of RaceSpec, and of Spec
MaxMsgs == 3
MaxRuns == 1
\* messages handled in a behaviour of ReserveSpec
MaxReserves == 2
\* approval requests made in a behaviour of PermSpec
MaxReqs == 1
\* chunks in which a stream of DecSpec arrives
MaxChunks == 3
\* tool_result entries of a user message
MaxEntries == 2
\* messages handled in a behaviour of ClearSpec
MaxClearRuns == 2
\* messages handled in a behaviour of BusySpec
MaxBusyMsgs == 2
\* pages of a paginated message
MaxPages == 3
\* tool_use entries of an assistant message
MaxTools == 2

Channels == {"c1", "c2"}
MsgIds == 1..(IF MaxMsgs > MaxRuns THEN MaxMsgs ELSE MaxRuns)
\* a process is identified by the message whose handler spawned it, and the
\* session id its protocol lines carry is that same number
Pids == MsgIds

Null == 0
None == 0
NoSlot == [process |-> -1, sessionId |-> -1]
NoMap == 0
NoBuf == [has |-> FALSE, buf |-> <<>>]
NoSum == [has |-> FALSE, ids |-> {}]

NL == "\n"
SP == " "
\* system/init, assistant (a long text and one tool_use), result, assistant
\* (a short text), user (tool_result entries)
Kinds == {"s", "L", "r", "a", "u"}

\* ------------------------------------------------------------------------
\* Stream decoding (pure)
\* ------------------------------------------------------------------------
Line(k) == <<"{", k, "}", NL>>

\* String.prototype.split("\n")
RECURSIVE SplitNL(_)
SplitNL(s) ==
  IF \E i \in 1..Len(s) : s[i] = NL
  THEN LET i == CHOOSE j \in 1..Len(s) :
                  s[j] = NL /\ \A k \in 1..(j-1) : s[k] # NL
       IN <<SubSeq(s, 1, i-1)>> \o SplitNL(SubSeq(s, i+1, Len(s)))
  ELSE <<s>>

\* String.prototype.trim()
RECURSIVE TrimL(_)
TrimL(s) == IF Len(s) > 0 /\ s[1] \in {SP, NL} THEN TrimL(Tail(s)) ELSE s
RECURSIVE TrimR(_)
TrimR(s) == IF Len(s) > 0 /\ s[Len(s)] \in {SP, NL}
            THEN TrimR(SubSeq(s, 1, Len(s)-1)) ELSE s
Trim(s) == TrimR(TrimL(s))

\* JSON.parse followed by reading .type: the kind of a well-formed protocol
\* line, "fail" when JSON.parse throws
JSONparse(line) ==
  LET t == Trim(line)
  IN IF Len(t) = 3 /\ t[1] = "{" /\ t[3] = "}" /\ t[2] \in Kinds
     THEN t[2] ELSE "fail"

\* the loop of processCompleteJsonMessages over lines[i..]
RECURSIVE PCJMLoop(_, _, _)
PCJMLoop(lines, i, acc) ==
  IF i > Len(lines) THEN acc
  ELSE LET line == Trim(lines[i])
           k == JSONparse(line)
       IN IF line = <<>> THEN PCJMLoop(lines, i+1, acc)
          ELSE IF k # "fail"
          THEN PCJMLoop(lines, i+1, [acc EXCEPT !.msgs = Append(@, k)])
          ELSE IF i = Len(lines)
          THEN PCJMLoop(lines, i+1, [acc EXCEPT !.rem = line])
          ELSE PCJMLoop(lines, i+1, [acc EXCEPT !.errs = @ + 1])

\* processCompleteJsonMessages(channelId, buffer, ...): existing is
\* jsonBuffers.get(channelId) || '', the empty string when there is no entry
processCompleteJsonMessages(existing, buffer) ==
  PCJMLoop(SplitNL(existing \o buffer), 1,
           [msgs |-> <<>>, errs |-> 0, rem |-> <<>>])

\* the loop of the stdout handler of manager.ts over the complete lines
RECURSIVE LinesLoop(_, _, _)
LinesLoop(lines, i, acc) ==
  IF i > Len(lines) THEN acc
  ELSE IF Trim(lines[i]) = <<>> THEN LinesLoop(lines, i+1, acc)
  ELSE IF JSONparse(lines[i]) # "fail"
  THEN LinesLoop(lines, i+1,
                 [acc EXCEPT !.msgs = Append(@, JSONparse(lines[i]))])
  ELSE LinesLoop(lines, i+1, [acc EXCEPT !.errs = @ + 1])

\* the handler without buffer = lines.pop()
stdoutLines_keep(buffer, rawData) ==
  LET lines == SplitNL(buffer \o rawData)
      n == Len(lines)
  IN LinesLoop(SubSeq(lines, 1, n-1), 1,
               [msgs |-> <<>>, errs |-> 0, rem |-> buffer \o rawData])

\* buffer += rawData; lines = buffer.split("\n"); buffer = lines.pop() || ""
stdoutLines(buffer, rawData) ==
  LET lines == SplitNL(buffer \o rawData)
      n == Len(lines)
  IN LinesLoop(SubSeq(lines, 1, n-1), 1,
               [msgs |-> <<>>, errs |-> 0, rem |-> lines[n]])

\* ------------------------------------------------------------------------
\* State
\* ------------------------------------------------------------------------
VARIABLES
  channelProcesses,  \* channel -> NoSlot or [process, sessionId]
  channelMessages,   \* channel -> TRUE iff the map has an entry
  channelToolCalls,  \* channel -> NoMap or the id of the Map object held
  toolMaps,          \* Map object (allocated by message m) -> set of tool ids
  channelNames,      \* channel -> TRUE iff the map has an entry
  toolSummaries,     \* channel -> NoSum or the summary ids stored
  jsonBuffers,       \* channel -> NoBuf or the buffered tail
  db,                \* persisted session id per channel, None if no row
  procs,             \* child processes with the closure state of their run
  msgs,              \* handleMessage invocations that passed the busy check
  tasks,             \* bag of suspended handler continuations
  env                \* the environment of the behaviour: how many messages
                     \* the user sends, in which channels, and what the
                     \* agent writes to stdout

VARIABLES
  reqs,              \* approval requests: table entry, timer, promise
  discordBot,        \* PermissionManager.discordBot is set
  mcpDefault,        \* MCP_DEFAULT_ON_TIMEOUT of the environment
  dec,               \* a stream fed to the two stdout decoders
  pages,             \* PaginationManager.pages: message id -> page state
  nav,               \* what the last handleNavigation returned
  sink               \* per channel, what was rendered in Discord and how
                     \* often db.setSession was called

permVars == <<reqs, discordBot, mcpDefault>>
decVars == <<dec>>
pageVars == <<pages, nav>>
sinkVars == <<sink>>

lifeVars == <<channelProcesses, channelMessages, channelToolCalls, toolMaps,
              channelNames, toolSummaries, jsonBuffers, db, procs, msgs,
              tasks, env>>

vars == <<lifeVars, permVars, decVars, sinkVars, pageVars>>

\* stdout of an agent run, as the chunks the pipe delivers: an assistant
\* message and a result whose line is cut by the chunk boundary; a system
\* message and a result in a chunk each; a result alone
Scripts ==
  { <<Line("L") \o <<"{", "r">>, <<"}", NL>> >>,
    <<Line("s"), Line("r")>> }
RaceScripts == { <<Line("r")>> }

\* the words of the command line before the session id is looked at; the
\* working directory, the escaped prompt and the path of the MCP config are
\* one word each
commandParts ==
  <<"cd workingDir", "&&", "claude", "--output-format", "stream-json",
    "--model", "sonnet", "-p", "escapedPrompt", "--verbose",
    "--mcp-config", "sessionMcpConfigPath",
    "--permission-prompt-tool", "mcp__discord-permissions__approve_tool",
    "--allowedTools", "mcp__discord-permissions">>

\* the command built without the splice
buildClaudeCommand_noResume(sessionId) == commandParts

\* buildClaudeCommand: commandParts.splice(3, 0, "--resume", sessionId) when
\* the session id is truthy
buildClaudeCommand(sessionId) ==
  IF sessionId # None
  THEN SubSeq(commandParts, 1, 3) \o <<"--resume", ToString(sessionId)>>
         \o SubSeq(commandParts, 4, Len(commandParts))
  ELSE commandParts

NoProc == [chan |-> "c1", st |-> "unborn", signaled |-> FALSE,
           timer |-> "off",
           buffer |-> <<>>, out |-> <<>>, resume |-> None, cmd |-> <<>>]
NoMsg == [chan |-> "c1", pc |-> "none", sessionId |-> None,
          passedWith |-> {}, outcome |-> "none"]

Fresh ==
  /\ channelProcesses = [c \in Channels |-> NoSlot]
  /\ channelMessages = [c \in Channels |-> FALSE]
  /\ channelToolCalls = [c \in Channels |-> NoMap]
  /\ toolMaps = [m \in MsgIds |-> {}]
  /\ channelNames = [c \in Channels |-> FALSE]
  /\ toolSummaries = [c \in Channels |-> NoSum]
  /\ jsonBuffers = [c \in Channels |-> NoBuf]
  /\ db = [c \in Channels |-> None]
  /\ procs = [p \in Pids |-> NoProc]
  /\ msgs = [m \in MsgIds |-> NoMsg]
  /\ tasks = EmptyBag

ReqIds == 1..MaxReqs
NoDecision == [behavior |-> "none", reason |-> "none"]
NoReq == [tool |-> "none", user |-> "none", inTable |-> FALSE,
          msgStored |-> FALSE, timer |-> "off", send |-> "idle",
          notified |-> FALSE, settled |-> "no", decision |-> NoDecision,
          calls |-> <<>>, signals |-> {}]
NoDec == [rest |-> <<>>, stream |-> <<>>, chunks |-> 0,
          buffer |-> <<>>, jsonBuffer |-> <<>>, out |-> <<>>, errs |-> 0,
          lineBuffer |-> <<>>, lineOut |-> <<>>, lineErrs |-> 0]

PermIdle ==
  /\ reqs = [r \in ReqIds |-> NoReq]
  /\ discordBot = FALSE
  /\ mcpDefault = "unset"

DecIdle == dec = NoDec

PageMsgIds == {"p1", "p2"}
NoPage == [has |-> FALSE, n |-> 0, currentPage |-> 0]
NoNav == [ret |-> "none", n |-> 0, currentPage |-> 0]
PageIdle == pages = [i \in PageMsgIds |-> NoPage] /\ nav = NoNav

NoSink == [texts |-> 0, summaries |-> 0, edits |-> {}, sets |-> 0,
           failed |-> 0, events |-> {}, afterClear |-> {}, notes |-> {}]
SinkIdle == sink = [c \in Channels |-> NoSink]

Init ==
  /\ Fresh
  /\ env = [budget |-> MaxRuns, chans |-> {"c1"}, scripts |-> Scripts]
  /\ PermIdle
  /\ DecIdle
  /\ PageIdle
  /\ SinkIdle

RaceInit ==
  /\ Fresh
  /\ env = [budget |-> MaxMsgs, chans |-> {"c1"}, scripts |-> RaceScripts]
  /\ PermIdle
  /\ DecIdle
  /\ PageIdle
  /\ SinkIdle

\* ------------------------------------------------------------------------
\* ClaudeManager
\* ------------------------------------------------------------------------
\* hasActiveProcess testing the handle instead of the entry
hasActiveProcess_handle(c) ==
  channelProcesses[c] # NoSlot /\ channelProcesses[c].process # Null

hasActiveProcess(c) == channelProcesses[c] # NoSlot

\* a kill that sends no signal
KillProc_noSignal(ps, p) == ps

\* ChildProcess.kill("SIGTERM"): delivered only while the child is running
KillProc(ps, p) ==
  IF p \in Pids /\ ps[p].st = "running"
  THEN [ps EXCEPT ![p].signaled = TRUE]
  ELSE ps

\* killActiveProcess without the optional chaining on the slot lookup
killActiveProcess_unguarded(ps, c) ==
  IF channelProcesses[c] = NoSlot
  THEN [procs |-> ps, threw |-> TRUE]
  ELSE IF channelProcesses[c].process # Null
  THEN [procs |-> KillProc(ps, channelProcesses[c].process), threw |-> FALSE]
  ELSE [procs |-> ps, threw |-> FALSE]

\* killActiveProcess(c) on process table ps: the table it leaves, and whether
\* the call throws (activeProcess?.process guards the missing slot)
killActiveProcess(ps, c) ==
  IF channelProcesses[c] # NoSlot /\ channelProcesses[c].process # Null
  THEN [procs |-> KillProc(ps, channelProcesses[c].process), threw |-> FALSE]
  ELSE [procs |-> ps, threw |-> FALSE]

\* clearSession as in the manager that has no jsonBuffers.delete
clearSession_keepBuffer(c) ==
  [threw |-> FALSE,
   procs |-> killActiveProcess(procs, c).procs,
   db |-> [db EXCEPT ![c] = None],
   channelMessages |-> [channelMessages EXCEPT ![c] = FALSE],
   channelToolCalls |-> [channelToolCalls EXCEPT ![c] = NoMap],
   channelNames |-> [channelNames EXCEPT ![c] = FALSE],
   channelProcesses |-> [channelProcesses EXCEPT ![c] = NoSlot],
   toolSummaries |-> [toolSummaries EXCEPT ![c] = NoSum],
   jsonBuffers |-> jsonBuffers]

\* the values clearSession(c) leaves in the manager's maps and the database
clearSession(c) ==
  IF killActiveProcess(procs, c).threw
  THEN [threw |-> TRUE, procs |-> procs, db |-> db,
        channelMessages |-> channelMessages,
        channelToolCalls |-> channelToolCalls,
        channelNames |-> channelNames,
        channelProcesses |-> channelProcesses,
        toolSummaries |-> toolSummaries, jsonBuffers |-> jsonBuffers]
  ELSE
  [threw |-> FALSE,
   procs |-> killActiveProcess(procs, c).procs,
   db |-> [db EXCEPT ![c] = None],
   channelMessages |-> [channelMessages EXCEPT ![c] = FALSE],
   channelToolCalls |-> [channelToolCalls EXCEPT ![c] = NoMap],
   channelNames |-> [channelNames EXCEPT ![c] = FALSE],
   channelProcesses |-> [channelProcesses EXCEPT ![c] = NoSlot],
   toolSummaries |-> [toolSummaries EXCEPT ![c] = NoSum],
   jsonBuffers |-> [jsonBuffers EXCEPT ![c] = NoBuf]]

ApplyClear(c) ==
  LET r == clearSession(c)
  IN /\ procs' = r.procs
     /\ db' = r.db
     /\ channelMessages' = r.channelMessages
     /\ channelToolCalls' = r.channelToolCalls
     /\ channelNames' = r.channelNames
     /\ channelProcesses' = r.channelProcesses
     /\ toolSummaries' = r.toolSummaries
     /\ jsonBuffers' = r.jsonBuffers

\* the /clear command
Clear(c) ==
  /\ ApplyClear(c)
  /\ UNCHANGED <<toolMaps, msgs, tasks, env>>

\* reserveChannel(c): SIGTERM for the process the slot holds, if any
reserveKill(ps, c) ==
  IF channelProcesses[c] # NoSlot /\ channelProcesses[c].process # Null
  THEN KillProc(ps, channelProcesses[c].process)
  ELSE ps

\* setDiscordMessage followed by reserveChannel and the synchronous body of
\* runClaudeCode up to the spawn, for the handler of message m
ReserveAndRun(m, spawnOk, script) ==
  LET c == msgs[m].chan
      child == [chan |-> c, st |-> IF spawnOk THEN "running" ELSE "spawnfail",
                signaled |-> FALSE, timer |-> "armed",
                buffer |-> <<>>, out |-> IF spawnOk THEN script ELSE <<>>,
                resume |-> msgs[m].sessionId,
                cmd |-> buildClaudeCommand(msgs[m].sessionId)]
  IN /\ channelMessages' = [channelMessages EXCEPT ![c] = TRUE]
     /\ channelToolCalls' = [channelToolCalls EXCEPT ![c] = m]
     /\ toolMaps' = [toolMaps EXCEPT ![m] = {}]
     /\ channelNames' = [channelNames EXCEPT ![c] = TRUE]
     /\ procs' = [reserveKill(procs, c) EXCEPT ![m] = child]
     /\ channelProcesses' = [channelProcesses EXCEPT
                               ![c] = [process |-> m,
                                       sessionId |-> msgs[m].sessionId]]
     /\ UNCHANGED <<toolSummaries, jsonBuffers, db>>

\* ------------------------------------------------------------------------
\* DiscordBot.handleMessage
\* ------------------------------------------------------------------------
NextMsg == CHOOSE m \in MsgIds :
             msgs[m].pc = "none" /\ \A k \in 1..(m-1) : msgs[k].pc # "none"

\* the handler without the busy check
Admission_noBusy(c, author, content) ==
  IF author # "allowed" THEN "ignored"
  ELSE IF content = "empty" THEN "empty"
  ELSE "accepted"

\* the handler without the two checks of the author
Admission_anyone(c, author, content) ==
  IF hasActiveProcess(c) THEN "busy"
  ELSE IF content = "empty" THEN "empty"
  ELSE "accepted"

\* where the handler of a new message goes before its first await; the
\* author is the allowed user, another user, or a bot (author.bot)
Admission(c, author, content) ==
  IF author # "allowed" THEN "ignored"
  ELSE IF hasActiveProcess(c) THEN "busy"
  ELSE IF content = "empty" THEN "empty"
  ELSE "accepted"

\* messageCreate for a message that passes the busy check: the handler reads
\* the session id and suspends in channel.send of the status embed
NewMessage(c, author, content) ==
  /\ Admission(c, author, content) = "accepted"
  /\ \E m \in 1..env.budget : msgs[m].pc = "none"
  /\ msgs' = [msgs EXCEPT ![NextMsg] =
                [chan |-> c, pc |-> "sending", sessionId |-> db[c],
                 passedWith |-> {k \in MsgIds : msgs[k].pc = "sending"
                                                /\ msgs[k].chan = c},
                 outcome |-> "none"]]
  /\ UNCHANGED <<channelProcesses, channelMessages, channelToolCalls,
                 toolMaps, channelNames, toolSummaries, jsonBuffers, db,
                 procs, tasks, env>>

\* the handler resumes after the status embed was sent: reserve and run, or
\* the catch block when the send or the launch threw
MessageSent(m, sendOk, dirExists, spawnOk, script) ==
  /\ msgs[m].pc = "sending"
  /\ IF sendOk /\ dirExists
     THEN /\ ReserveAndRun(m, spawnOk, script)
          /\ msgs' = [msgs EXCEPT ![m].pc = "done", ![m].sessionId = None,
                                  ![m].outcome = "spawned"]
     ELSE /\ ApplyClear(msgs[m].chan)
          /\ toolMaps' = toolMaps
          /\ msgs' = [msgs EXCEPT ![m].pc = "done", ![m].sessionId = None,
                                  ![m].outcome = "threw"]
  /\ UNCHANGED <<tasks, env>>

\* ------------------------------------------------------------------------
\* Events of a run (closures of runClaudeCode)
\* ------------------------------------------------------------------------
Task(kind, p, c, map, stage) ==
  [kind |-> kind, pid |-> p, chan |-> c, map |-> map, stage |-> stage]

\* the synchronous part of the handlers called for the decoded messages ks,
\* in order; acc carries the database, the suspended continuations and the
\* number of result continuations that run without suspension
RECURSIVE Dispatch(_, _, _, _)
Dispatch(ks, p, c, acc) ==
  IF ks = <<>> THEN acc
  ELSE LET k == Head(ks)
           setS == [acc EXCEPT !.db = [@ EXCEPT ![c] = p]]
           nxt ==
             CASE k = "s" -> setS
               [] k = "L" ->
                    IF channelMessages[c]
                    THEN [acc EXCEPT !.tasks = @ (+) SetToBag(
                            {Task("assistant", p, c, channelToolCalls[c], 1)})]
                    ELSE acc
               [] k = "r" ->
                    IF channelMessages[c]
                    THEN [setS EXCEPT !.tasks = @ (+) SetToBag(
                            {Task("result", p, c, NoMap, 1)})]
                    ELSE [setS EXCEPT !.now = @ + 1]
       IN Dispatch(Tail(ks), p, c, nxt)

\* a handler that leaves the watchdog armed
clearTimeout_keep(t) == t

clearTimeout(t) == IF t = "armed" THEN "cleared" ELSE t

\* a process whose "close" was delivered: its closures are never run again
Exited(c) == [NoProc EXCEPT !.chan = c, !.st = "exited"]

\* the continuation without the delete of the slot
ResultTeardown_keepSlot(ps, cp, p) ==
  [procs |-> KillProc([ps EXCEPT ![p].timer = clearTimeout(@)], p),
   channelProcesses |-> cp]

\* the .then continuation of handleResultMessage
ResultTeardown(ps, cp, p) ==
  [procs |-> KillProc([ps EXCEPT ![p].timer = clearTimeout(@)], p),
   channelProcesses |-> [cp EXCEPT ![ps[p].chan] = NoSlot]]

\* stdout "data" event of process p
Data(p) ==
  /\ procs[p].st = "running"
  /\ procs[p].out # <<>>
  /\ LET c == procs[p].chan
         buffer == procs[p].buffer \o Head(procs[p].out)
         r == processCompleteJsonMessages(jsonBuffers[c].buf, buffer)
         d == Dispatch(r.msgs, p, c, [db |-> db, tasks |-> tasks, now |-> 0])
         ps == [procs EXCEPT ![p].buffer = buffer, ![p].out = Tail(@)]
         t == ResultTeardown(ps, channelProcesses, p)
     IN /\ jsonBuffers' = [jsonBuffers EXCEPT
                             ![c] = [has |-> TRUE, buf |-> r.rem]]
        /\ db' = d.db
        /\ tasks' = d.tasks
        /\ IF d.now > 0
           THEN procs' = t.procs /\ channelProcesses' = t.channelProcesses
           ELSE procs' = ps /\ UNCHANGED channelProcesses
  /\ UNCHANGED <<channelMessages, channelToolCalls, toolMaps, channelNames,
                 toolSummaries, msgs, env>>

\* handleResultMessage settled: clearTimeout, kill, delete the slot
ResultThen(p) ==
  /\ \E t \in BagToSet(tasks) : t.kind = "result" /\ t.pid = p
  /\ LET t == CHOOSE x \in BagToSet(tasks) : x.kind = "result" /\ x.pid = p
         r == ResultTeardown(procs, channelProcesses, p)
     IN /\ tasks' = tasks (-) SetToBag({t})
        /\ procs' = r.procs
        /\ channelProcesses' = r.channelProcesses
  /\ UNCHANGED <<channelMessages, channelToolCalls, toolMaps, channelNames,
                 toolSummaries, jsonBuffers, db, msgs, env>>

\* handleAssistantMessage resumes after a channel.send: after the send of
\* the summarized text (stage 1) it stores the summary and sends the tool
\* embed; after that send (stage 2) it records the tool call and the session
AssistantCont(t, sendOk) ==
  /\ BagIn(t, tasks)
  /\ t.kind = "assistant"
  /\ IF ~sendOk
     THEN /\ tasks' = tasks (-) SetToBag({t})
          /\ UNCHANGED <<toolSummaries, toolMaps, db, channelToolCalls>>
     ELSE IF t.stage = 1
     THEN /\ tasks' = (tasks (-) SetToBag({t}))
                        (+) SetToBag({[t EXCEPT !.stage = 2]})
          /\ toolSummaries' = [toolSummaries EXCEPT ![t.chan] =
                                 [has |-> TRUE, ids |-> @.ids \cup {"sum"}]]
          /\ UNCHANGED <<toolMaps, db, channelToolCalls>>
     ELSE /\ tasks' = tasks (-) SetToBag({t})
          /\ toolMaps' = [toolMaps EXCEPT ![t.map] = @ \cup {"T1"}]
          /\ db' = [db EXCEPT ![t.chan] = t.pid]
          /\ channelToolCalls' = [channelToolCalls EXCEPT ![t.chan] = t.map]
          /\ UNCHANGED toolSummaries
  /\ UNCHANGED <<channelProcesses, channelMessages, channelNames,
                 jsonBuffers, procs, msgs, env>>

\* the close handler forgetting this.channelProcesses.delete
CloseSlot_keep(cp, c) == cp

\* the close handler emptying the whole table
CloseSlot_all(cp, c) == [x \in Channels |-> NoSlot]

\* the slot table after the close handler ran for a process of channel c
CloseSlot(cp, c) == [cp EXCEPT ![c] = NoSlot]

\* "close" event of process p with exit status code
Close(p, code) ==
  /\ procs[p].st \in {"running", "errored"}
  /\ code = "null" => procs[p].signaled
  /\ procs[p].st = "errored" <=> code = "-2"
  /\ procs' = [procs EXCEPT ![p] = Exited(procs[p].chan)]
  /\ channelProcesses' = CloseSlot(channelProcesses, procs[p].chan)
  /\ UNCHANGED <<channelMessages, channelToolCalls, toolMaps, channelNames,
                 toolSummaries, jsonBuffers, db, msgs, tasks,
                 env>>

\* "error" event of process p: the spawn failed
Error(p) ==
  /\ procs[p].st = "spawnfail"
  /\ procs' = [procs EXCEPT ![p].st = "errored",
                            ![p].timer = clearTimeout(@)]
  /\ channelProcesses' = [channelProcesses EXCEPT ![procs[p].chan] = NoSlot]
  /\ UNCHANGED <<channelMessages, channelToolCalls, toolMaps, channelNames,
                 toolSummaries, jsonBuffers, db, msgs, tasks,
                 env>>

\* the watchdog timer of process p fires
Timeout(p) ==
  /\ procs[p].timer = "armed"
  /\ procs[p].st = "running"
  /\ procs' = KillProc([procs EXCEPT ![p].timer = "fired"], p)
  /\ UNCHANGED <<channelProcesses, channelMessages, channelToolCalls,
                 toolMaps, channelNames, toolSummaries, jsonBuffers, db,
                 msgs, tasks, env>>

Authors == {"allowed", "other", "bot"}
Contents == {"text", "empty"}
ExitCodes == {"0", "1", "null", "-2"}

Idle == UNCHANGED <<permVars, decVars, sinkVars, pageVars>>

Next ==
  \/ \E c \in env.chans, a \in Authors, x \in Contents :
       NewMessage(c, a, x) /\ Idle
  \/ \E m \in MsgIds, sendOk \in BOOLEAN, dirExists \in BOOLEAN,
        spawnOk \in BOOLEAN, script \in env.scripts :
       MessageSent(m, sendOk, dirExists, spawnOk, script) /\ Idle
  \/ \E p \in Pids : Data(p) /\ Idle
  \/ \E p \in Pids : ResultThen(p) /\ Idle
  \/ \E t \in BagToSet(tasks), sendOk \in BOOLEAN :
       AssistantCont(t, sendOk) /\ Idle
  \/ \E p \in Pids, code \in ExitCodes : Close(p, code) /\ Idle
  \/ \E p \in Pids : Error(p) /\ Idle
  \/ \E p \in Pids : Timeout(p) /\ Idle
  \/ \E c \in env.chans : Clear(c) /\ Idle

\* two channels in use at once, as many messages as there are channels:
\* agents that call a tool, that finish, or that stop after the init line
PairScripts == { <<Line("L")>>, <<Line("s"), Line("r")>>, <<Line("s")>> }

PairInit ==
  /\ Fresh
  /\ env = [budget |-> Cardinality(Channels), chans |-> Channels,
            scripts |-> PairScripts]
  /\ PermIdle
  /\ DecIdle
  /\ PageIdle
  /\ SinkIdle

\* the steps of a behaviour in which the agent writes no assistant line
RaceNext ==
  \/ \E c \in env.chans, a \in Authors, x \in Contents :
       NewMessage(c, a, x) /\ Idle
  \/ \E m \in MsgIds, sendOk \in BOOLEAN, dirExists \in BOOLEAN,
        spawnOk \in BOOLEAN, script \in env.scripts :
       MessageSent(m, sendOk, dirExists, spawnOk, script) /\ Idle
  \/ \E p \in Pids : Data(p) /\ Idle
  \/ \E p \in Pids : ResultThen(p) /\ Idle
  \/ \E p \in Pids, code \in ExitCodes : Close(p, code) /\ Idle
  \/ \E p \in Pids : Error(p) /\ Idle
  \/ \E p \in Pids : Timeout(p) /\ Idle
  \/ \E c \in env.chans : Clear(c) /\ Idle

Spec == Init /\ [][Next]_vars

RaceSpec == RaceInit /\ [][RaceNext]_vars

PairSpec == PairInit /\ [][Next]_vars

\* agents whose lines are handled without suspending: one that writes
\* nothing, one that stops after the init line, and two that finish
FairScripts ==
  { <<>>, <<Line("s")>>, <<Line("r")>>, <<Line("s"), Line("r")>> }

FairInit ==
  /\ Fresh
  /\ env = [budget |-> MaxRuns, chans |-> Channels, scripts |-> FairScripts]
  /\ PermIdle
  /\ DecIdle
  /\ PageIdle
  /\ SinkIdle

\* the operating system delivers the exit of a process that was sent SIGTERM
FairSpec ==
  /\ FairInit /\ [][RaceNext]_vars
  /\ \A p \in Pids :
       WF_vars(/\ procs[p].signaled
               /\ \E code \in ExitCodes : Close(p, code) /\ Idle)

\* ------------------------------------------------------------------------
\* The synchronous block of handleMessage, statement by statement
\* ------------------------------------------------------------------------
\* reserveChannel without the kill of the process the slot holds
reserveChannel_noKill(ps, cp, c, sessionId) ==
  [procs |-> ps,
   channelProcesses |-> [cp EXCEPT ![c] = [process |-> Null,
                                           sessionId |-> sessionId]]]

\* reserveChannel(c, sessionId, discordMessage)
reserveChannel(ps, cp, c, sessionId) ==
  [procs |-> IF cp[c] # NoSlot /\ cp[c].process # Null
             THEN KillProc(ps, cp[c].process) ELSE ps,
   channelProcesses |-> [cp EXCEPT ![c] = [process |-> Null,
                                           sessionId |-> sessionId]]]

\* no handler is inside its synchronous block: the event loop is free
NoSync == \A m \in MsgIds : msgs[m].pc # "reserved"

\* the handler of m resumes after the send of the status embed:
\* setDiscordMessage and reserveChannel, or the catch block
Reserve(m, sendOk) ==
  /\ NoSync
  /\ msgs[m].pc = "sending"
  /\ LET c == msgs[m].chan
         r == reserveChannel(procs, channelProcesses, c, msgs[m].sessionId)
     IN IF sendOk
        THEN /\ channelMessages' = [channelMessages EXCEPT ![c] = TRUE]
             /\ channelToolCalls' = [channelToolCalls EXCEPT ![c] = m]
             /\ toolMaps' = [toolMaps EXCEPT ![m] = {}]
             /\ procs' = r.procs
             /\ channelProcesses' = r.channelProcesses
             /\ msgs' = [msgs EXCEPT
                  ![m].pc = "reserved",
                  ![m].outcome = IF r.procs = procs THEN "fresh"
                                 ELSE "replaced"]
             /\ UNCHANGED <<channelNames, toolSummaries, jsonBuffers, db>>
        ELSE /\ ApplyClear(c)
             /\ toolMaps' = toolMaps
             /\ msgs' = [msgs EXCEPT ![m].pc = "done", ![m].sessionId = None,
                                     ![m].outcome = "threw"]
  /\ UNCHANGED <<tasks, env>>

\* runClaudeCode up to the installation of the handle, in the same turn of
\* the event loop as the reservation
Launch(m, dirExists, spawnOk, script) ==
  /\ msgs[m].pc = "reserved"
  /\ LET c == msgs[m].chan
         child == [chan |-> c,
                   st |-> IF spawnOk THEN "running" ELSE "spawnfail",
                   signaled |-> FALSE, timer |-> "armed",
                   buffer |-> <<>>, out |-> IF spawnOk THEN script ELSE <<>>,
                   resume |-> msgs[m].sessionId,
                   cmd |-> buildClaudeCommand(msgs[m].sessionId)]
     IN IF dirExists
        THEN /\ channelNames' = [channelNames EXCEPT ![c] = TRUE]
             /\ procs' = [procs EXCEPT ![m] = child]
             /\ channelProcesses' =
                  IF channelProcesses[c] # NoSlot
                  THEN [channelProcesses EXCEPT ![c].process = m]
                  ELSE channelProcesses
             /\ msgs' = [msgs EXCEPT ![m].pc = "done", ![m].sessionId = None,
                                     ![m].outcome = "spawned"]
             /\ UNCHANGED <<channelMessages, channelToolCalls, toolMaps,
                            toolSummaries, jsonBuffers, db>>
        ELSE /\ ApplyClear(c)
             /\ toolMaps' = toolMaps
             /\ msgs' = [msgs EXCEPT ![m].pc = "done", ![m].sessionId = None,
                                     ![m].outcome = "threw"]
  /\ UNCHANGED <<tasks, env>>

ReserveInit ==
  /\ Fresh
  /\ env = [budget |-> MaxReserves, chans |-> {"c1"}, scripts |-> RaceScripts]
  /\ PermIdle
  /\ DecIdle
  /\ PageIdle
  /\ SinkIdle

ReserveNext ==
  \/ \E c \in env.chans, a \in Authors, x \in Contents :
       NoSync /\ NewMessage(c, a, x) /\ Idle
  \/ \E m \in MsgIds, sendOk \in BOOLEAN : Reserve(m, sendOk) /\ Idle
  \/ \E m \in MsgIds, dirExists \in BOOLEAN, spawnOk \in BOOLEAN,
        script \in env.scripts :
       Launch(m, dirExists, spawnOk, script) /\ Idle
  \/ \E p \in Pids : NoSync /\ Data(p) /\ Idle
  \/ \E p \in Pids : NoSync /\ ResultThen(p) /\ Idle
  \/ \E p \in Pids, code \in ExitCodes : NoSync /\ Close(p, code) /\ Idle
  \/ \E p \in Pids : NoSync /\ Error(p) /\ Idle
  \/ \E p \in Pids : NoSync /\ Timeout(p) /\ Idle
  \/ \E c \in env.chans : NoSync /\ Clear(c) /\ Idle

ReserveSpec == ReserveInit /\ [][ReserveNext]_vars

\* ------------------------------------------------------------------------
\* Message routing of manager.ts: the stdout handler and the four handlers
\* ------------------------------------------------------------------------
\* tool_use ids: "T1" is the id of the tool_use of the assistant message "L",
\* no assistant message carries "X"
ToolUseIds == {"T1", "X"}
RECURSIVE SeqsUpTo(_, _)
SeqsUpTo(S, n) ==
  IF n = 0 THEN { <<>> }
  ELSE LET shorter == SeqsUpTo(S, n-1)
       IN shorter \cup { Append(q, x) : q \in shorter, x \in S }
\* the tool_use_id of the tool_result entries of the user message "u"
EntrySeqs == SeqsUpTo(ToolUseIds, MaxEntries) \ { <<>> }

\* the for loop of handleToolResultMessage ended by an id without a record
NextKnown_stop(entries, i, known) ==
  IF i <= Len(entries) /\ entries[i] \in known THEN i ELSE 0

\* the for loop of handleToolResultMessage from entry i on, up to its next
\* await: the index of the first entry whose id has a record, 0 when the loop
\* ends
NextKnown(entries, i, known) ==
  LET has == { j \in i..Len(entries) : entries[j] \in known }
  IN IF has = {} THEN 0 ELSE CHOOSE j \in has : \A k \in has : j <= k

\* this.channelToolCalls.get(channelId) || new Map(), as the recorded ids
Records(map) == IF map = NoMap THEN {} ELSE toolMaps[map]

Bump(s, c, f) == [s EXCEPT ![c][f] = @ + 1]

\* the synchronous part of the handlers the stdout handler calls for the
\* parsed lines ks, in order
RECURSIVE HandleLines(_, _, _, _)
HandleLines(ks, p, c, acc) ==
  IF ks = <<>> THEN acc
  ELSE LET k == Head(ks)
           add(t) == [acc EXCEPT !.tasks = @ (+) SetToBag({t})]
           setS(a) == [a EXCEPT !.db = [@ EXCEPT ![c] = p],
                                !.sink = Bump(@, c, "sets")]
           j == NextKnown(env.entries, 1, Records(channelToolCalls[c]))
           nxt ==
             CASE k = "s" ->
                    IF channelMessages[c]
                    THEN setS(add(Task("init", p, c, NoMap, 1)))
                    ELSE setS(acc)
               [] k = "a" ->
                    IF channelMessages[c]
                    THEN add(Task("assistantText", p, c,
                                  channelToolCalls[c], 1))
                    ELSE acc
               [] k = "L" ->
                    IF channelMessages[c]
                    THEN add(Task("assistantTool", p, c,
                                  channelToolCalls[c], 1))
                    ELSE acc
               [] k = "u" ->
                    IF j # 0
                    THEN add(Task("toolresult", p, c, channelToolCalls[c], j))
                    ELSE acc
               [] k = "r" ->
                    IF channelMessages[c]
                    THEN setS(add(Task("result", p, c, NoMap, 1)))
                    ELSE [setS(acc) EXCEPT !.now = @ + 1]
       IN HandleLines(Tail(ks), p, c, nxt)

\* stdout "data" event of process p, handled by manager.ts
Stdout(p) ==
  /\ procs[p].st = "running"
  /\ procs[p].out # <<>>
  /\ LET c == procs[p].chan
         l == stdoutLines(procs[p].buffer, Head(procs[p].out))
         d == HandleLines(l.msgs, p, c,
                    [db |-> db, tasks |-> tasks, sink |-> sink, now |-> 0])
         ps == [procs EXCEPT ![p].buffer = l.rem, ![p].out = Tail(@)]
         t == ResultTeardown(ps, channelProcesses, p)
     IN /\ db' = d.db
        /\ tasks' = d.tasks
        /\ sink' = d.sink
        /\ IF d.now > 0
           THEN procs' = t.procs /\ channelProcesses' = t.channelProcesses
           ELSE procs' = ps /\ UNCHANGED channelProcesses
  /\ UNCHANGED <<channelMessages, channelToolCalls, toolMaps, channelNames,
                 toolSummaries, jsonBuffers, msgs, env>>
  /\ UNCHANGED <<permVars, decVars, pageVars>>

\* handleInitMessage resumes after its channel.send
InitThen(t, sendOk) ==
  /\ BagIn(t, tasks)
  /\ t.kind = "init"
  /\ tasks' = tasks (-) SetToBag({t})
  /\ sink' = IF sendOk THEN sink ELSE Bump(sink, t.chan, "failed")
  /\ UNCHANGED <<channelProcesses, channelMessages, channelToolCalls,
                 toolMaps, channelNames, toolSummaries, jsonBuffers, db,
                 procs, msgs, env>>
  /\ UNCHANGED <<permVars, decVars, pageVars>>

\* handleAssistantMessage resumes after a channel.send: after the send of
\* the text embed (stage 1) it sends the tool embed, if the message has a
\* tool_use; after that send (stage 2) it records the tool call; after the
\* last send it persists the session id and stores the tool-call map
AssistantThen(t, sendOk) ==
  /\ BagIn(t, tasks)
  /\ t.kind \in {"assistantText", "assistantTool"}
  /\ LET more == t.kind = "assistantTool" /\ t.stage = 1
         shown == IF t.stage = 1 THEN Bump(sink, t.chan, "texts") ELSE sink
     IN IF ~sendOk
        THEN /\ tasks' = tasks (-) SetToBag({t})
             /\ sink' = Bump(sink, t.chan, "failed")
             /\ UNCHANGED <<toolMaps, db, channelToolCalls>>
        ELSE IF more
        THEN /\ tasks' = (tasks (-) SetToBag({t}))
                           (+) SetToBag({[t EXCEPT !.stage = 2]})
             /\ sink' = shown
             /\ UNCHANGED <<toolMaps, db, channelToolCalls>>
        ELSE /\ tasks' = tasks (-) SetToBag({t})
             /\ toolMaps' = IF t.stage = 2 /\ t.map # NoMap
                            THEN [toolMaps EXCEPT ![t.map] = @ \cup {"T1"}]
                            ELSE toolMaps
             /\ db' = [db EXCEPT ![t.chan] = t.pid]
             /\ sink' = Bump(shown, t.chan, "sets")
             /\ channelToolCalls' = [channelToolCalls EXCEPT
                                       ![t.chan] = t.map]
  /\ UNCHANGED <<channelProcesses, channelMessages, channelNames,
                 toolSummaries, jsonBuffers, procs, msgs, env>>
  /\ UNCHANGED <<permVars, decVars, pageVars>>

\* handleToolResultMessage resumes after toolCall.message.edit of entry
\* t.stage (a rejected edit is caught) and runs its loop to the next await
ToolResultThen(t, editOk) ==
  /\ BagIn(t, tasks)
  /\ t.kind = "toolresult"
  /\ LET j == NextKnown(env.entries, t.stage + 1, Records(t.map))
     IN /\ tasks' = IF j = 0 THEN tasks (-) SetToBag({t})
                    ELSE (tasks (-) SetToBag({t}))
                           (+) SetToBag({[t EXCEPT !.stage = j]})
        /\ sink' = IF editOk
                   THEN [sink EXCEPT ![t.chan].edits =
                           @ \cup {env.entries[t.stage]}]
                   ELSE Bump(sink, t.chan, "failed")
  /\ UNCHANGED <<channelProcesses, channelMessages, channelToolCalls,
                 toolMaps, channelNames, toolSummaries, jsonBuffers, db,
                 procs, msgs, env>>
  /\ UNCHANGED <<permVars, decVars, pageVars>>

\* handleResultMessage resumes after the send of the result embed (a
\* rejected send is caught), then its .then continuation runs
ResultSent(p, sendOk) ==
  /\ ResultThen(p)
  /\ sink' = Bump(sink, procs[p].chan,
                  IF sendOk THEN "summaries" ELSE "failed")
  /\ UNCHANGED <<permVars, decVars, pageVars>>

\* system/init, an assistant text and a result, in one chunk or a chunk each
ScenarioScripts ==
  { <<Line("s") \o Line("a") \o Line("r")>>,
    <<Line("s"), Line("a"), Line("r")>> }

\* the run of a behaviour of RouteSpec writes one of these
RouteScripts ==
  ScenarioScripts \cup
  { <<Line("L") \o Line("u")>>,
    <<Line("L"), Line("u"), Line("r")>> }

RouteInit ==
  /\ Fresh
  /\ \E es \in EntrySeqs, script \in RouteScripts :
       env = [budget |-> 1, chans |-> {"c1"}, scripts |-> {script},
              entries |-> es]
  /\ PermIdle
  /\ DecIdle
  /\ PageIdle
  /\ SinkIdle

RouteNext ==
  \/ \E c \in env.chans, a \in Authors, x \in Contents :
       NewMessage(c, a, x) /\ Idle
  \/ \E m \in MsgIds, sendOk \in BOOLEAN, dirExists \in BOOLEAN,
        spawnOk \in BOOLEAN, script \in env.scripts :
       MessageSent(m, sendOk, dirExists, spawnOk, script) /\ Idle
  \/ \E p \in Pids : Stdout(p)
  \/ \E t \in BagToSet(tasks), sendOk \in BOOLEAN : InitThen(t, sendOk)
  \/ \E t \in BagToSet(tasks), sendOk \in BOOLEAN : AssistantThen(t, sendOk)
  \/ \E t \in BagToSet(tasks), editOk \in BOOLEAN : ToolResultThen(t, editOk)
  \/ \E p \in Pids, sendOk \in BOOLEAN : ResultSent(p, sendOk)
  \/ \E p \in Pids, code \in ExitCodes : Close(p, code) /\ Idle
  \/ \E p \in Pids : Error(p) /\ Idle
  \/ \E p \in Pids : Timeout(p) /\ Idle

RouteSpec == RouteInit /\ [][RouteNext]_vars

\* ------------------------------------------------------------------------
\* PermissionManager: the approval protocol
\* ------------------------------------------------------------------------
ToolNames == {"Read", "Bash", "Frob"}
\* the static safe list; "Bash" is known-dangerous, "Frob" is unrecognized
SafeTools == {"Read"}
Users == {"u1", "u2"}
\* discordContext.userId of the requests; the other user is never one
Requesters == {"u1"}
McpEnv == {"unset", "allow", "deny"}

PermInit ==
  /\ Fresh
  /\ env = [budget |-> 0, chans |-> {}, scripts |-> {}]
  /\ reqs = [r \in ReqIds |-> NoReq]
  /\ discordBot = FALSE
  /\ mcpDefault \in McpEnv
  /\ DecIdle
  /\ PageIdle
  /\ SinkIdle

\* process.env.MCP_DEFAULT_ON_TIMEOUT || 'deny'
defaultOnTimeout_allow == IF mcpDefault = "unset" THEN "allow" ELSE mcpDefault

defaultOnTimeout == IF mcpDefault = "unset" THEN "deny" ELSE mcpDefault

requiresApproval(tool) == tool \notin SafeTools

\* the static decision; b is what the classifier says of a tool that is not
\* on the safe list
approveToolRequest(tool, b) ==
  [behavior |-> IF tool \in SafeTools THEN "allow" ELSE b,
   reason |-> "static"]

generateRequestId == CHOOSE r \in ReqIds :
  reqs[r].tool = "none" /\ \A q \in ReqIds : reqs[q].tool = "none" => r <= q

\* a call of a promise's resolve or reject: the first call settles it
Settle(q, how, decision, cause) ==
  [q EXCEPT !.calls = Append(@, cause),
            !.settled = IF @ = "no" THEN how ELSE @,
            !.decision = IF q.settled = "no" THEN decision ELSE @]

cleanupPendingApproval_keep(q) == q

cleanupPendingApproval(q) ==
  IF q.inTable
  THEN [q EXCEPT !.timer = clearTimeout(@), !.inTable = FALSE]
  ELSE q

\* which branch of requestApproval a call takes
Route_always(tool, hasContext) ==
  IF ~hasContext \/ ~discordBot THEN "basic" ELSE "interactive"

Route(tool, hasContext) ==
  IF ~hasContext THEN "basic"
  ELSE IF ~discordBot THEN "basic"
  ELSE IF ~requiresApproval(tool) THEN "safe"
  ELSE "interactive"

setDiscordBot ==
  /\ ~discordBot
  /\ discordBot' = TRUE
  /\ UNCHANGED <<reqs, mcpDefault, lifeVars, decVars, sinkVars,
                 pageVars>>

requestApproval(tool, hasContext, user, b) ==
  /\ \E r \in ReqIds : reqs[r].tool = "none"
  /\ LET r == generateRequestId
         q == [NoReq EXCEPT !.tool = tool, !.user = user]
         route == Route(tool, hasContext)
     IN reqs' = [reqs EXCEPT ![r] =
          CASE route = "basic" ->
                 Settle(q, "resolved", approveToolRequest(tool, b), "static")
            [] route = "safe" ->
                 Settle(q, "resolved",
                        [behavior |-> "allow", reason |-> "safe"], "safe")
            [] OTHER ->
                 [q EXCEPT !.timer = "armed", !.inTable = TRUE,
                           !.send = "fetching"]]
  /\ UNCHANGED <<discordBot, mcpDefault, lifeVars, decVars, sinkVars,
                 pageVars>>

\* sendApprovalMessage resumes after an await that succeeded
SendStep(r) ==
  /\ reqs[r].send \in {"fetching", "posted"}
  /\ reqs' = [reqs EXCEPT ![r] =
       IF @.send = "fetching"
       THEN [@ EXCEPT !.send = "posted", !.notified = TRUE]
       ELSE [@ EXCEPT !.send = "stored", !.msgStored = reqs[r].inTable]]
  /\ UNCHANGED <<discordBot, mcpDefault, lifeVars, decVars, sinkVars,
                 pageVars>>

\* one of its awaits failed: the catch of requestInteractiveApproval
SendFail(r, b) ==
  /\ reqs[r].send \in {"fetching", "posted"}
  /\ reqs' = [reqs EXCEPT ![r] =
       Settle([cleanupPendingApproval(@) EXCEPT !.send = "failed"],
              "resolved", approveToolRequest(@.tool, b), "fallback")]
  /\ UNCHANGED <<discordBot, mcpDefault, lifeVars, decVars, sinkVars,
                 pageVars>>

\* the reaction handler without the check of the user id
SignalEffect_anyone(q, u) ==
  IF ~(q.inTable /\ q.msgStored)
  THEN IF q.inTable THEN "early" ELSE "late"
  ELSE "resolved"

\* what a reaction of user u on the approval message of r does
SignalEffect(q, u) ==
  IF ~(q.inTable /\ q.msgStored)
  THEN IF q.inTable THEN "early" ELSE "late"
  ELSE IF u # q.user THEN "foreign" ELSE "resolved"

\* what is remembered of the signals that resolved nothing: those of the
\* requester that found no record, and those of another user on a record
SignalLog(q, u, e) ==
  IF e = "foreign" \/ (e \in {"early", "late"} /\ u = q.user)
  THEN q.signals \cup {e}
  ELSE q.signals

handleApprovalReaction(r, u, approved) ==
  /\ reqs[r].notified
  /\ LET q == reqs[r]
         e == SignalEffect(q, u)
         s == [q EXCEPT !.signals = SignalLog(q, u, e)]
     IN reqs' = [reqs EXCEPT ![r] =
          IF e = "resolved"
          THEN cleanupPendingApproval(
                 Settle([s EXCEPT !.timer = clearTimeout(@)], "resolved",
                        [behavior |-> IF approved THEN "allow" ELSE "deny",
                         reason |-> "user"], "user"))
          ELSE s]
  /\ UNCHANGED <<discordBot, mcpDefault, lifeVars, decVars, sinkVars,
                 pageVars>>

\* a timer callback that returns without resolving
handleApprovalTimeout_noResolve(r) ==
  /\ reqs[r].timer = "armed"
  /\ reqs' = [reqs EXCEPT ![r].timer = "fired"]
  /\ UNCHANGED <<discordBot, mcpDefault, lifeVars, decVars, sinkVars,
                 pageVars>>

\* the callback of the deadline timer of r
handleApprovalTimeout(r) ==
  /\ reqs[r].timer = "armed"
  /\ reqs' = [reqs EXCEPT ![r] =
       LET q == [@ EXCEPT !.timer = "fired"]
       IN IF ~q.inTable THEN q
          ELSE cleanupPendingApproval(
                 Settle(q, "resolved",
                        [behavior |-> defaultOnTimeout,
                         reason |-> "timeout"], "timeout"))]
  /\ UNCHANGED <<discordBot, mcpDefault, lifeVars, decVars, sinkVars,
                 pageVars>>

\* the loop body of cleanup without clearTimeout
rejectPending_keepTimer(q) ==
  [Settle(q, "rejected", NoDecision, "reject") EXCEPT !.inTable = FALSE]

\* the loop body of cleanup for a record of the table, and its removal by
\* pendingApprovals.clear()
rejectPending(q) ==
  [Settle([q EXCEPT !.timer = clearTimeout(@)], "rejected",
          NoDecision, "reject") EXCEPT !.inTable = FALSE]

\* PermissionManager.cleanup, on shutdown
cleanup ==
  /\ \E r \in ReqIds : reqs[r].inTable
  /\ reqs' = [r \in ReqIds |->
       IF reqs[r].inTable THEN rejectPending(reqs[r]) ELSE reqs[r]]
  /\ UNCHANGED <<discordBot, mcpDefault, lifeVars, decVars, sinkVars,
                 pageVars>>

Decisions == {"allow", "deny"}

PermNext ==
  \/ setDiscordBot
  \/ \E tool \in ToolNames, hasContext \in BOOLEAN, user \in Requesters,
        b \in Decisions : requestApproval(tool, hasContext, user, b)
  \/ \E r \in ReqIds : SendStep(r)
  \/ \E r \in ReqIds, b \in Decisions : SendFail(r, b)
  \/ \E r \in ReqIds, u \in Users, approved \in BOOLEAN :
       handleApprovalReaction(r, u, approved)
  \/ \E r \in ReqIds : handleApprovalTimeout(r)
  \/ cleanup

PermSpec == PermInit /\ [][PermNext]_vars

\* a timer that is armed and not cleared fires
PermFairSpec ==
  PermSpec /\ \A r \in ReqIds : WF_vars(handleApprovalTimeout(r))

\* ------------------------------------------------------------------------
\* DiscordBot: who may drive the bot
\* ------------------------------------------------------------------------
\* ALLOWED_USER_ID; the Discord context of an approval request carries the id
\* of the author of the message that started the run
allowedUserId == "u1"
Senders == [id : Users, bot : BOOLEAN]
Emojis == {"yes", "no", "eyes"}

Authorized(who) == ~who.bot /\ who.id = allowedUserId

\* the handler returned at a check of the user: nothing but the trace of the
\* event remains
Drop(c, kind) ==
  /\ sink' = [sink EXCEPT ![c].events = @ \cup {kind}]
  /\ UNCHANGED <<lifeVars, permVars, decVars, pageVars>>

\* messageCreate, up to the first await of handleMessage
MessageCreate(c, author, content) ==
  IF Admission(c, author, content) = "ignored"
  THEN Drop(c, "message")
  ELSE IF Admission(c, author, content) = "busy"
  THEN Drop(c, "busy")
  ELSE NewMessage(c, author, content) /\ Idle

\* messages in a channel that is busy at times
BusyInit ==
  /\ Fresh
  /\ env = [budget |-> MaxBusyMsgs, chans |-> {"c1"}, scripts |-> RaceScripts]
  /\ PermIdle
  /\ DecIdle
  /\ PageIdle
  /\ SinkIdle

BusyNext ==
  \/ \E c \in env.chans, a \in Authors, x \in Contents :
       MessageCreate(c, a, x)
  \/ \E m \in MsgIds, sendOk \in BOOLEAN, dirExists \in BOOLEAN,
        spawnOk \in BOOLEAN, script \in env.scripts :
       MessageSent(m, sendOk, dirExists, spawnOk, script) /\ Idle
  \/ \E p \in Pids : Data(p) /\ Idle
  \/ \E p \in Pids : ResultThen(p) /\ Idle
  \/ \E p \in Pids, code \in ExitCodes : Close(p, code) /\ Idle

BusySpec == BusyInit /\ [][BusyNext]_vars

\* messageReactionAdd on the approval message of request r
ReactionAdd(r, who, emoji) ==
  /\ reqs[r].notified
  /\ IF ~Authorized(who)
     THEN Drop("c1", "reaction")
     ELSE /\ emoji \in {"yes", "no"}
          /\ handleApprovalReaction(r, who.id, emoji = "yes")

\* interactionCreate of a button: a user other than the allowed one gets the
\* refusal, the allowed one gets the stored content shown
ButtonClick(c, who) ==
  /\ sink' = [sink EXCEPT ![c].events =
                @ \cup {IF who.id # allowedUserId THEN "button" ELSE "view"}]
  /\ UNCHANGED <<lifeVars, permVars, decVars, pageVars>>

GateInit ==
  /\ Fresh
  /\ env = [budget |-> 1, chans |-> {"c1"}, scripts |-> RaceScripts]
  /\ reqs = [r \in ReqIds |-> NoReq]
  /\ discordBot = FALSE
  /\ mcpDefault = "unset"
  /\ DecIdle
  /\ PageIdle
  /\ SinkIdle

GateNext ==
  \/ \E c \in env.chans, a \in Authors, x \in Contents :
       MessageCreate(c, a, x)
  \/ \E m \in MsgIds, sendOk \in BOOLEAN, dirExists \in BOOLEAN,
        spawnOk \in BOOLEAN, script \in env.scripts :
       MessageSent(m, sendOk, dirExists, spawnOk, script) /\ Idle
  \/ \E r \in ReqIds, who \in Senders, emoji \in Emojis :
       ReactionAdd(r, who, emoji)
  \/ \E c \in env.chans, who \in Senders : ButtonClick(c, who)
  \/ setDiscordBot
  \/ \E tool \in ToolNames, b \in Decisions :
       /\ reqs[1].tool = "none"
       /\ requestApproval(tool, TRUE, allowedUserId, b)
  \/ \E r \in ReqIds : SendStep(r)
  \/ \E r \in ReqIds : handleApprovalTimeout(r)

GateSpec == GateInit /\ [][GateNext]_vars

\* ------------------------------------------------------------------------
\* /clear among the events of a run
\* ------------------------------------------------------------------------
\* the /clear command in channel c; the trace remembers it until the next
\* message of the channel is admitted
ClearCmd(c) ==
  /\ Clear(c)
  /\ sink' = [sink EXCEPT ![c].events = @ \cup {"cleared"}]
  /\ UNCHANGED <<permVars, decVars, pageVars>>

\* messageCreate of the allowed user; the trace remembers the handlers that
\* were admitted after a /clear of their channel
Admit(c, content) ==
  /\ NewMessage(c, "allowed", content)
  /\ sink' = [sink EXCEPT
       ![c].events = @ \ {"cleared"},
       ![c].afterClear = IF "cleared" \in sink[c].events
                         THEN @ \cup {NextMsg} ELSE @]
  /\ UNCHANGED <<permVars, decVars, pageVars>>

ClearScripts == { <<Line("s")>>, <<Line("a"), Line("r")>> }

ClearInit ==
  /\ Fresh
  /\ env = [budget |-> MaxClearRuns, chans |-> {"c1"},
            scripts |-> ClearScripts, entries |-> <<>>]
  /\ PermIdle
  /\ DecIdle
  /\ PageIdle
  /\ SinkIdle

ClearNext ==
  \/ \E c \in env.chans, x \in Contents : Admit(c, x)
  \/ \E m \in MsgIds, sendOk \in BOOLEAN, dirExists \in BOOLEAN,
        spawnOk \in BOOLEAN, script \in env.scripts :
       MessageSent(m, sendOk, dirExists, spawnOk, script) /\ Idle
  \/ \E c \in env.chans : ClearCmd(c)
  \/ \E p \in Pids : Stdout(p)
  \/ \E t \in BagToSet(tasks), sendOk \in BOOLEAN : InitThen(t, sendOk)
  \/ \E t \in BagToSet(tasks), sendOk \in BOOLEAN : AssistantThen(t, sendOk)
  \/ \E p \in Pids, sendOk \in BOOLEAN : ResultSent(p, sendOk)
  \/ \E p \in Pids, code \in ExitCodes : Close(p, code) /\ Idle

ClearSpec == ClearInit /\ [][ClearNext]_vars

\* ------------------------------------------------------------------------
\* The watchdog, "close" and "error" listeners of manager.ts with the embeds
\* they send
\* ------------------------------------------------------------------------
\* channelMessages.get(channelId)?.channel, then channel.send of an embed
\* titled kind for process p; a rejected send is only logged
Notify(c, kind, p) ==
  IF channelMessages[c]
  THEN [sink EXCEPT ![c].notes = @ \cup {<<kind, p>>}]
  ELSE sink

\* the test of the close listener with null taken for a failure
exitFailed_nonzero(code) == code # "0"

\* code !== 0 && code !== null
exitFailed(code) == code # "0" /\ code # "null"

\* the setTimeout callback of process p
OnTimeout(p) ==
  /\ Timeout(p)
  /\ sink' = Notify(procs[p].chan, "Timeout", p)
  /\ UNCHANGED <<permVars, decVars, pageVars>>

\* the "close" listener of process p
OnClose(p, code) ==
  /\ Close(p, code)
  /\ sink' = IF exitFailed(code)
             THEN Notify(procs[p].chan, "Claude Code Failed", p)
             ELSE sink
  /\ UNCHANGED <<permVars, decVars, pageVars>>

\* the second "error" listener of process p
OnError(p) ==
  /\ Error(p)
  /\ sink' = Notify(procs[p].chan, "Process Error", p)
  /\ UNCHANGED <<permVars, decVars, pageVars>>

\* agents that stop after the init line and agents that finish
WatchScripts == { <<Line("s")>>, <<Line("r")>> }

WatchInit ==
  /\ Fresh
  /\ env = [budget |-> MaxRuns, chans |-> {"c1"},
            scripts |-> WatchScripts, entries |-> <<>>]
  /\ PermIdle
  /\ DecIdle
  /\ PageIdle
  /\ SinkIdle

\* the "error" of a failed spawn is queued with process.nextTick: it runs
\* before any other event is taken from the loop
NoTick == \A p \in Pids : procs[p].st # "spawnfail"

WatchNext ==
  \/ \E p \in Pids : OnError(p)
  \/ \E c \in env.chans, a \in Authors, x \in Contents :
       NoTick /\ NewMessage(c, a, x) /\ Idle
  \/ \E m \in MsgIds, sendOk \in BOOLEAN, dirExists \in BOOLEAN,
        spawnOk \in BOOLEAN, script \in env.scripts :
       NoTick /\ MessageSent(m, sendOk, dirExists, spawnOk, script) /\ Idle
  \/ \E c \in env.chans : NoTick /\ ClearCmd(c)
  \/ \E p \in Pids : NoTick /\ Stdout(p)
  \/ \E t \in BagToSet(tasks), sendOk \in BOOLEAN :
       NoTick /\ InitThen(t, sendOk)
  \/ \E p \in Pids, sendOk \in BOOLEAN : NoTick /\ ResultSent(p, sendOk)
  \/ \E p \in Pids, code \in ExitCodes : NoTick /\ OnClose(p, code)
  \/ \E p \in Pids : NoTick /\ OnTimeout(p)

WatchSpec == WatchInit /\ [][WatchNext]_vars

\* ------------------------------------------------------------------------
\* The stdout handlers fed with a chunked stream
\* ------------------------------------------------------------------------
DecStreams ==
  { Line(k) : k \in Kinds } \cup
  { Line("s") \o Line("r"), <<"{", "x", NL>> \o Line("r"),
    <<SP>> \o Line("L") \o <<NL>> }

DecInit ==
  /\ Fresh
  /\ env = [budget |-> 0, chans |-> {}, scripts |-> {}]
  /\ PermIdle
  /\ SinkIdle
  /\ PageIdle
  /\ \E s \in DecStreams : dec = [NoDec EXCEPT !.stream = s, !.rest = s]

\* the next k characters of the stream arrive as one chunk, at the handler
\* of part_006 (buffer, jsonBuffer) and at that of manager.ts (lineBuffer)
Feed(k) ==
  /\ dec.chunks < MaxChunks
  /\ k \in 1..Len(dec.rest)
  /\ LET rawData == SubSeq(dec.rest, 1, k)
         buffer == dec.buffer \o rawData
         r == processCompleteJsonMessages(dec.jsonBuffer, buffer)
         l == stdoutLines(dec.lineBuffer, rawData)
     IN dec' = [dec EXCEPT !.rest = SubSeq(@, k+1, Len(@)),
                           !.chunks = @ + 1,
                           !.buffer = buffer,
                           !.jsonBuffer = r.rem,
                           !.out = @ \o r.msgs,
                           !.errs = @ + r.errs,
                           !.lineBuffer = l.rem,
                           !.lineOut = @ \o l.msgs,
                           !.lineErrs = @ + l.errs]
  /\ UNCHANGED <<lifeVars, permVars, sinkVars, pageVars>>

DecNext == \E k \in 1..Len(dec.rest) : Feed(k)

DecSpec == DecInit /\ [][DecNext]_vars

\* ------------------------------------------------------------------------
\* PaginationManager
\* ------------------------------------------------------------------------
\* a navigation that does not stop at the last and at the first page
newPage_unclamped(pageState, direction) ==
  IF direction = "next"
  THEN pageState.currentPage + 1
  ELSE pageState.currentPage - 1

\* Math.min(currentPage + 1, pages.length - 1) for 'next' and
\* Math.max(currentPage - 1, 0) for 'previous'
newPage(pageState, direction) ==
  IF direction = "next"
  THEN IF pageState.currentPage + 1 < pageState.n - 1
       THEN pageState.currentPage + 1 ELSE pageState.n - 1
  ELSE IF pageState.currentPage - 1 > 0
       THEN pageState.currentPage - 1 ELSE 0

\* createPaginatedMessage for message id with n pages: the state is stored
\* only when there is more than one page
createPaginatedMessage(id, n) ==
  /\ ~pages[id].has
  /\ pages' = IF n > 1
              THEN [pages EXCEPT ![id] =
                      [has |-> TRUE, n |-> n, currentPage |-> 0]]
              ELSE pages
  /\ UNCHANGED <<nav, lifeVars, permVars, decVars, sinkVars>>

\* handleNavigation(messageId, direction)
handleNavigation(id, direction) ==
  /\ IF ~pages[id].has
     THEN /\ nav' = [NoNav EXCEPT !.ret = "null"]
          /\ UNCHANGED pages
     ELSE /\ pages' = [pages EXCEPT
                         ![id].currentPage = newPage(pages[id], direction)]
          /\ nav' = [ret |-> "state", n |-> pages[id].n,
                     currentPage |-> newPage(pages[id], direction)]
  /\ UNCHANGED <<lifeVars, permVars, decVars, sinkVars>>

\* the collector of the message ends, or cleanupOldPages finds it too old
pagesDelete(id) ==
  /\ pages[id].has
  /\ pages' = [pages EXCEPT ![id] = NoPage]
  /\ UNCHANGED <<nav, lifeVars, permVars, decVars, sinkVars>>

\* the table holds any states whose index is one of its pages (the map is
\* public and the tests fill it directly)
PageInit ==
  /\ Fresh
  /\ env = [budget |-> 0, chans |-> {}, scripts |-> {}]
  /\ PermIdle
  /\ DecIdle
  /\ SinkIdle
  /\ pages \in [PageMsgIds ->
                  {NoPage} \cup
                  { s \in [has : {TRUE}, n : 1..MaxPages,
                           currentPage : 0..(MaxPages - 1)] :
                      s.currentPage < s.n }]
  /\ nav = NoNav

PageNext ==
  \/ \E id \in PageMsgIds, n \in 1..MaxPages : createPaginatedMessage(id, n)
  \/ \E id \in PageMsgIds, d \in {"next", "previous"} : handleNavigation(id, d)
  \/ \E id \in PageMsgIds : pagesDelete(id)

PageSpec == PageInit /\ [][PageNext]_vars

\* ------------------------------------------------------------------------
\* handleLargeAssistantMessage, handleLargeToolOperations and
\* handleAssistantMessage of the manager with jsonBuffers, for an assistant
\* message env.msg: text says whether it has a text entry, tools[i] whether
\* the input of its i-th tool_use serializes to more than 50000 characters;
\* the id of the i-th tool_use is ToString(i)
\* ------------------------------------------------------------------------
\* toolUses.some(tool => JSON.stringify(tool.input || {}).length > 50000)
hasLargeToolContent(tools) == \E i \in 1..Len(tools) : tools[i]

\* the stdout "data" event with the assistant line: the handlers run up to
\* their first await. Stage 0 of a continuation waits for the send of the
\* text, stage i for the send of the embed of tool i; "normal" is
\* handleAssistantMessage called for a message without large input,
\* "nested" the one handleLargeToolOperations awaits when there is text,
\* "large" the loop of handleLargeToolOperations
ToolIn(p) ==
  /\ procs[p].st = "running"
  /\ procs[p].out # <<>>
  /\ LET c == procs[p].chan
         buffer == procs[p].buffer \o Head(procs[p].out)
         r == processCompleteJsonMessages(jsonBuffers[c].buf, buffer)
         msg == env.msg
         map == channelToolCalls[c]
         first ==
           IF hasLargeToolContent(msg.tools)
           THEN IF msg.text THEN Task("nested", p, c, map, 0)
                ELSE Task("large", p, c, map, 1)
           ELSE Task("normal", p, c, map, IF msg.text THEN 0 ELSE 1)
         handled == r.msgs = <<"L">> /\ channelMessages[c]
         suspends == handled /\ (msg.text \/ msg.tools # <<>>)
     IN /\ procs' = [procs EXCEPT ![p].buffer = buffer, ![p].out = Tail(@)]
        /\ jsonBuffers' = [jsonBuffers EXCEPT
                             ![c] = [has |-> TRUE, buf |-> r.rem]]
        /\ tasks' = IF suspends THEN tasks (+) SetToBag({first}) ELSE tasks
        /\ db' = IF handled /\ ~suspends THEN [db EXCEPT ![c] = p] ELSE db
  /\ UNCHANGED <<channelProcesses, channelMessages, channelToolCalls,
                 toolMaps, channelNames, toolSummaries, msgs, env>>
  /\ UNCHANGED <<permVars, decVars, sinkVars, pageVars>>

\* a send awaited by one of the three handlers settles. A rejected send is
\* caught by the handler that awaited it, which then ends without
\* db.setSession; when the nested handleAssistantMessage ends, either way,
\* handleLargeToolOperations goes on with its own loop over toolUses
ToolCont(t, sendOk) ==
  /\ BagIn(t, tasks)
  /\ t.kind \in {"normal", "nested", "large"}
  /\ LET c == t.chan
         n == Len(env.msg.tools)
         i == t.stage
         rest == tasks (-) SetToBag({t})
         after == IF t.kind = "nested"
                  THEN rest (+) SetToBag({Task("large", t.pid, c, t.map, 1)})
                  ELSE rest
         unit == <<ToString(i),
                   1 + Cardinality({u \in sink[c].notes :
                                      u[1] = ToString(i)})>>
         ends == sendOk /\ i = n
     IN /\ tasks' = IF ~sendOk \/ i = n THEN after
                    ELSE rest (+) SetToBag({[t EXCEPT !.stage = i + 1]})
        /\ sink' = IF ~sendOk THEN Bump(sink, c, "failed")
                   ELSE IF i = 0 THEN Bump(sink, c, "texts")
                   ELSE [sink EXCEPT ![c].notes = @ \cup {unit}]
        /\ toolMaps' = IF sendOk /\ i > 0 /\ t.map # NoMap
                       THEN [toolMaps EXCEPT
                               ![t.map] = @ \cup {ToString(i)}]
                       ELSE toolMaps
        /\ toolSummaries' =
             IF sendOk /\ i > 0 /\ t.kind = "large" /\ env.msg.tools[i]
             THEN [toolSummaries EXCEPT ![c] =
                     [has |-> TRUE, ids |-> @.ids \cup {ToString(i)}]]
             ELSE toolSummaries
        /\ db' = IF ends THEN [db EXCEPT ![c] = t.pid] ELSE db
        /\ channelToolCalls' =
             IF ends THEN [channelToolCalls EXCEPT ![c] = t.map]
             ELSE channelToolCalls
  /\ UNCHANGED <<channelProcesses, channelMessages, channelNames,
                 jsonBuffers, procs, msgs, env>>
  /\ UNCHANGED <<permVars, decVars, pageVars>>

\* one run whose agent writes one assistant line
ToolInit ==
  /\ Fresh
  /\ \E text \in BOOLEAN, tools \in SeqsUpTo(BOOLEAN, MaxTools) :
       env = [budget |-> 1, chans |-> {"c1"},
              scripts |-> { <<Line("L")>> }, entries |-> <<>>,
              msg |-> [text |-> text, tools |-> tools]]
  /\ PermIdle
  /\ DecIdle
  /\ PageIdle
  /\ SinkIdle

ToolNext ==
  \/ \E c \in env.chans, a \in Authors, x \in Contents :
       NewMessage(c, a, x) /\ Idle
  \/ \E m \in MsgIds, sendOk \in BOOLEAN, dirExists \in BOOLEAN,
        spawnOk \in BOOLEAN, script \in env.scripts :
       MessageSent(m, sendOk, dirExists, spawnOk, script) /\ Idle
  \/ \E p \in Pids : ToolIn(p)
  \/ \E t \in BagToSet(tasks), sendOk \in BOOLEAN : ToolCont(t, sendOk)

ToolSpec == ToolInit /\ [][ToolNext]_vars

\* ------------------------------------------------------------------------
\* Properties
\* ------------------------------------------------------------------------
Live(p) == procs[p].st = "running" /\ ~procs[p].signaled
ManagerState == <<channelProcesses, channelMessages, channelToolCalls,
                  channelNames, toolSummaries, jsonBuffers, db>>

\* C1: single-flight - in every reachable state each channel has at most one
\* live agent process (spawned, not exited, not yet sent SIGTERM)
C1_SingleFlight ==
  \A c \in Channels :
    Cardinality({p \in Pids : procs[p].chan = c /\ Live(p)}) <= 1

\* C2: the busy check and the reservation are one uninterrupted step - two
\* messages of one channel never both pass the check, the second while the
\* first has not reserved yet, and both go on to reserve and spawn
C2_CheckAndReserveAtomic ==
  \A m1 \in MsgIds, m2 \in MsgIds :
    m1 \in msgs[m2].passedWith =>
      ~(msgs[m1].outcome = "spawned" /\ msgs[m2].outcome = "spawned")

\* a step in which the handler of message m took its catch block
LaunchThrew(m) ==
  \E sendOk \in BOOLEAN, dirExists \in BOOLEAN, script \in env.scripts :
    /\ ~(sendOk /\ dirExists)
    /\ MessageSent(m, sendOk, dirExists, TRUE, script)

\* C3: a watchdog timeout is followed, once the exit of the killed process
\* is delivered, by a state in which the channel is not busy; a spawn
\* failure, a nonzero exit and an exception while launching leave the
\* channel not busy at once
C3_FailureLeavesChannelFree ==
  /\ \A p \in Pids :
       (procs[p].st = "running" /\ procs[p].timer = "fired")
         ~> ~hasActiveProcess(procs[p].chan)
  /\ [][\A p \in Pids :
          /\ (Error(p) \/ Close(p, "1") \/ Close(p, "-2"))
               => ~hasActiveProcess(procs[p].chan)'
          /\ LaunchThrew(p) => ~hasActiveProcess(msgs[p].chan)']_vars

\* the watchdog of a run fired and the exit has not been delivered yet
C3_Witness ==
  \E p \in Pids : /\ procs[p].st = "running"
                  /\ procs[p].timer = "fired"
                  /\ hasActiveProcess(procs[p].chan)

\* a data step of p that handles a result to its end (no sink to await)
ResultInData(p) ==
  /\ Data(p)
  /\ ~channelMessages[procs[p].chan]
  /\ LET r == processCompleteJsonMessages(
                jsonBuffers[procs[p].chan].buf,
                procs[p].buffer \o Head(procs[p].out))
     IN \E i \in 1..Len(r.msgs) : r.msgs[i] = "r"

\* C4: when a result message has been handled, the process has been sent
\* SIGTERM and the slot of the channel is empty, whether or not the exit of
\* the process was reported
C4_ResultClearsSlot ==
  [][\A p \in Pids :
       (ResultThen(p) \/ ResultInData(p))
         => /\ ~hasActiveProcess(procs[p].chan)'
            /\ procs[p].st = "running" => procs'[p].signaled]_vars

\* the result was handled while the process had not exited
C4_Witness ==
  \E p \in Pids : /\ procs[p].st = "running"
                  /\ procs[p].timer = "cleared"
                  /\ procs[p].signaled
                  /\ ~hasActiveProcess(procs[p].chan)

\* clearSession(c) would not throw and would change nothing
ClearIsNoop(c) ==
  LET r == clearSession(c)
  IN /\ ~r.threw
     /\ r.procs = procs
     /\ r.db = db
     /\ r.channelMessages = channelMessages
     /\ r.channelToolCalls = channelToolCalls
     /\ r.channelNames = channelNames
     /\ r.channelProcesses = channelProcesses
     /\ r.toolSummaries = toolSummaries
     /\ r.jsonBuffers = jsonBuffers

\* C9: after clear(c) a second clear(c) does not throw and changes nothing;
\* a close, error or result teardown that finds the slot already cleared
\* leaves the manager's maps and the database as they are
C9_TeardownIdempotent ==
  [][/\ \A c \in env.chans : Clear(c) => ClearIsNoop(c)'
     /\ \A p \in Pids :
          (/\ ~hasActiveProcess(procs[p].chan)
           /\ \/ ResultThen(p)
              \/ Error(p)
              \/ \E code \in ExitCodes : Close(p, code))
            => UNCHANGED ManagerState]_vars

\* clear killed the running process of the channel and emptied its maps
C9_Witness ==
  \E p \in Pids : /\ procs[p].st = "running"
                  /\ procs[p].signaled
                  /\ procs[p].timer = "armed"
                  /\ ~hasActiveProcess(procs[p].chan)
                  /\ ~channelMessages[procs[p].chan]

\* C10: clear(c) sends SIGTERM to the process the slot holds, removes the
\* slot, the tool-call records, the stream buffer and the tool summaries of
\* the channel, and deletes the persisted session id
C10_ClearErasesChannel ==
  [][\A c \in env.chans :
       Clear(c) =>
         /\ (hasActiveProcess(c) /\ channelProcesses[c].process # Null
             /\ procs[channelProcesses[c].process].st = "running")
              => procs'[channelProcesses[c].process].signaled
         /\ ~hasActiveProcess(c)'
         /\ channelToolCalls'[c] = NoMap
         /\ jsonBuffers'[c] = NoBuf
         /\ toolSummaries'[c] = NoSum
         /\ db'[c] = None]_vars

\* clear acted on a channel whose run had recorded a tool call and received
\* output: the process is killed with its watchdog still armed and every
\* map of the channel is empty
C10_Witness ==
  \E p \in Pids : /\ procs[p].st = "running"
                  /\ procs[p].signaled
                  /\ procs[p].timer = "armed"
                  /\ procs[p].buffer # <<>>
                  /\ toolMaps[p] # {}
                  /\ ~hasActiveProcess(procs[p].chan)
                  /\ channelToolCalls[procs[p].chan] = NoMap
                  /\ jsonBuffers[procs[p].chan] = NoBuf
                  /\ toolSummaries[procs[p].chan] = NoSum
                  /\ db[procs[p].chan] = None

RECURSIVE Count(_, _)
Count(seq, x) ==
  IF seq = <<>> THEN 0
  ELSE (IF Head(seq) = x THEN 1 ELSE 0) + Count(Tail(seq), x)

Outcome(q) == <<q.inTable, q.timer, q.settled, q.decision, q.calls>>

\* C5: two approval signals from the requester on one pending approval cause
\* exactly one terminal transition and exactly one call of the stored resolve
\* continuation: the first removes the record and resolves the promise with
\* the user's decision, a signal on a record that is gone changes nothing,
\* and a request resolved by its requester has had no other call.
C5_ExactlyOnce ==
  [][\A r \in ReqIds :
       /\ Count(reqs'[r].calls, "user") > 0 => reqs'[r].calls = <<"user">>
       /\ \A u \in Users, a \in BOOLEAN : handleApprovalReaction(r, u, a) =>
            /\ ~reqs[r].inTable => Outcome(reqs'[r]) = Outcome(reqs[r])
            /\ (reqs[r].inTable /\ reqs[r].msgStored /\ u = reqs[r].user) =>
                 /\ ~reqs'[r].inTable
                 /\ reqs'[r].timer # "armed"
                 /\ reqs'[r].settled = "resolved"
                 /\ reqs'[r].decision =
                      [behavior |-> IF a THEN "allow" ELSE "deny",
                       reason |-> "user"]
                 /\ reqs'[r].calls = Append(reqs[r].calls, "user")]_vars

C5_Witness ==
  \E r \in ReqIds :
    /\ "late" \in reqs[r].signals
    /\ reqs[r].calls = <<"user">>
    /\ reqs[r].settled = "resolved"

\* C6: a pending approval whose deadline expires resolves with the configured
\* default decision, deny unless MCP_DEFAULT_ON_TIMEOUT says allow, with the
\* reason of a timeout and not that of a denial by the user; the record is
\* removed, and a signal that arrives after the expiry neither changes the
\* outcome nor calls the continuation again.
C6_TimeoutDefault ==
  [][\A r \in ReqIds :
       /\ (handleApprovalTimeout(r) /\ reqs[r].inTable) =>
            /\ reqs'[r].settled = "resolved"
            /\ reqs'[r].decision =
                 [behavior |-> IF mcpDefault = "allow" THEN "allow"
                               ELSE "deny",
                  reason |-> "timeout"]
            /\ reqs'[r].calls = <<"timeout">>
            /\ ~reqs'[r].inTable
       /\ \A u \in Users, a \in BOOLEAN :
            (handleApprovalReaction(r, u, a) /\ reqs[r].timer = "fired") =>
              Outcome(reqs'[r]) = Outcome(reqs[r])]_vars

C6_Witness ==
  \E r \in ReqIds :
    /\ mcpDefault = "unset"
    /\ reqs[r].timer = "fired"
    /\ reqs[r].calls = <<"timeout">>
    /\ reqs[r].decision = [behavior |-> "deny", reason |-> "timeout"]
    /\ "late" \in reqs[r].signals

\* C7 as stated: requestApproval of a tool on the safe list resolves as
\* allowed, creates no pending approval and never sends a notification; of an
\* unrecognized tool it always creates a pending approval.
C7_AsStated ==
  [][/\ \A r \in ReqIds : reqs'[r].tool \in SafeTools =>
          ~reqs'[r].inTable /\ ~reqs'[r].notified /\ reqs'[r].send = "idle"
     /\ \A tool \in ToolNames, hasContext \in BOOLEAN, user \in Users,
           b \in Decisions :
          requestApproval(tool, hasContext, user, b) =>
            LET r == generateRequestId
            IN /\ tool \in SafeTools =>
                    /\ reqs'[r].settled = "resolved"
                    /\ reqs'[r].decision.behavior = "allow"
               /\ tool = "Frob" => reqs'[r].inTable]_vars

\* C7: requestApproval of a tool on the safe list resolves as allowed,
\* creates no pending approval and never sends a notification; of an
\* unrecognized tool it creates a pending approval when the call carries a
\* Discord context and the bot is set, and otherwise creates none and
\* resolves with the static decision.
C7_ApprovalDeterminism ==
  [][/\ \A r \in ReqIds : reqs'[r].tool \in SafeTools =>
          ~reqs'[r].inTable /\ ~reqs'[r].notified /\ reqs'[r].send = "idle"
     /\ \A tool \in ToolNames, hasContext \in BOOLEAN, user \in Users,
           b \in Decisions :
          requestApproval(tool, hasContext, user, b) =>
            LET r == generateRequestId
            IN /\ tool \in SafeTools =>
                    /\ reqs'[r].settled = "resolved"
                    /\ reqs'[r].decision.behavior = "allow"
               /\ tool = "Frob" =>
                    IF hasContext /\ discordBot
                    THEN /\ reqs'[r].inTable
                         /\ reqs'[r].settled = "no"
                         /\ reqs'[r].timer = "armed"
                    ELSE /\ ~reqs'[r].inTable
                         /\ reqs'[r].calls = <<"static">>
                         /\ reqs'[r].decision = approveToolRequest(tool, b)
     ]_vars

C7_Witness ==
  \E r \in ReqIds : /\ reqs[r].tool = "Frob"
                    /\ discordBot
                    /\ reqs[r].inTable
                    /\ reqs[r].notified

\* C8: a protocol line delivered as two stdout chunks, split at any position,
\* is dispatched exactly once and no parse error is logged for it.
C8_StreamReassembly ==
  (/\ dec.stream \in { Line(k) : k \in Kinds }
   /\ dec.rest = <<>>
   /\ dec.chunks = 2)
  => (dec.out = <<dec.stream[2]>> /\ dec.errs = 0)

\* C11: reserveChannel on a channel whose slot holds a process handle sends
\* that process SIGTERM in the step that overwrites the slot with the new
\* reservation, and touches no other process; on a channel with no slot or
\* a null handle it signals nothing.
C11_ReserveKillsOld ==
  [][\A m \in MsgIds : Reserve(m, TRUE) =>
       LET c == msgs[m].chan
           old == channelProcesses[c]
       IN /\ channelProcesses'[c] =
               [process |-> Null, sessionId |-> msgs[m].sessionId]
          /\ IF old # NoSlot /\ old.process # Null
             THEN /\ procs[old.process].st = "running"
                       => procs'[old.process].signaled
                  /\ \A q \in Pids \ {old.process} : procs'[q] = procs[q]
             ELSE procs' = procs]_vars

\* a reservation that found a running, unsignalled process in the slot
C11_Witness ==
  \E m \in MsgIds, p \in Pids :
    /\ msgs[m].pc = "reserved"
    /\ msgs[m].outcome = "replaced"
    /\ procs[p].chan = msgs[m].chan
    /\ procs[p].st = "running"
    /\ procs[p].signaled
    /\ channelProcesses[msgs[m].chan].process = Null

\* C12: between the reservation and the spawn the slot of the channel holds
\* a null handle and the process does not exist yet, and hasActiveProcess is
\* true of the channel; hasActiveProcess is true only of a channel that some
\* handler has reserved.
C12_ReservationBeforeSpawn ==
  /\ \A m \in MsgIds : msgs[m].pc = "reserved" =>
       /\ channelProcesses[msgs[m].chan] =
            [process |-> Null, sessionId |-> msgs[m].sessionId]
       /\ hasActiveProcess(msgs[m].chan)
       /\ procs[m].st = "unborn"
  /\ \A c \in Channels : hasActiveProcess(c) =>
       \E m \in MsgIds : /\ msgs[m].chan = c
                         /\ \/ msgs[m].pc = "reserved"
                            \/ msgs[m].outcome = "spawned"

C12_Witness ==
  \E m \in MsgIds : /\ msgs[m].pc = "reserved"
                    /\ channelProcesses[msgs[m].chan].process = Null
                    /\ hasActiveProcess(msgs[m].chan)

\* C13: a tool_result entry whose tool_use_id has no record in the channel's
\* tool-call map edits no message, so every edited id has a record, and it
\* does not end the handler: started by the stdout handler or resumed after
\* an edit, the loop passes the entries without a record and suspends at the
\* first later entry that has one
C13_UnknownToolResultSkipped ==
  /\ [](\A c \in Channels :
          /\ "X" \notin sink[c].edits
          /\ sink[c].edits \subseteq UNION { toolMaps[m] : m \in MsgIds })
  /\ [][\A p \in Pids :
          LET c == procs[p].chan
              es == env.entries
              known == Records(channelToolCalls[c])
              l == stdoutLines(procs[p].buffer, Head(procs[p].out))
          IN (/\ procs[p].st = "running"
              /\ procs[p].out # <<>>
              /\ procs'[p].st = "running"
              /\ procs'[p].out = Tail(procs[p].out)
              /\ \E i \in 1..Len(l.msgs) : l.msgs[i] = "u"
              /\ \E j \in 1..Len(es) : es[j] \in known)
             => \E t \in BagToSet(tasks') :
                  /\ t.kind = "toolresult"
                  /\ CopiesIn(t, tasks') > CopiesIn(t, tasks)
                  /\ es[t.stage] \in known
                  /\ \A i \in 1..(t.stage - 1) : es[i] \notin known]_vars
  /\ [][\A t \in BagToSet(tasks) :
          LET es == env.entries
              later == { j \in (t.stage + 1)..Len(es) :
                           es[j] \in Records(t.map) }
          IN (/\ t.kind = "toolresult"
              /\ CopiesIn(t, tasks') < CopiesIn(t, tasks)
              /\ later # {})
             => \E t2 \in BagToSet(tasks') :
                  /\ t2.kind = "toolresult"
                  /\ t2.stage \in later
                  /\ \A j \in later : t2.stage <= j]_vars

\* the entry without a record was passed and the entry after it was edited
C13_Witness ==
  /\ env.entries = <<"X", "T1">>
  /\ sink["c1"].edits = {"T1"}

\* C14: a channel without a session id whose process wrote system/init, one
\* assistant text and a success result, in any chunking: once the handlers
\* have settled and the sends succeeded, setSession was called at least
\* twice and the row holds the session id of the run, one text and one
\* completion summary were rendered, and the channel is not busy
C14_EndToEnd ==
  (/\ env.scripts \subseteq ScenarioScripts
   /\ tasks = EmptyBag
   /\ sink["c1"].failed = 0
   /\ sink["c1"].summaries >= 1)
  => /\ sink["c1"].sets >= 2
     /\ db["c1"] \in Pids
     /\ sink["c1"].texts = 1
     /\ sink["c1"].summaries = 1
     /\ ~hasActiveProcess("c1")

\* the three lines came in a chunk each and all was rendered
C14_Witness ==
  /\ env.scripts = { <<Line("s"), Line("a"), Line("r")>> }
  /\ tasks = EmptyBag
  /\ sink["c1"].failed = 0
  /\ sink["c1"].summaries = 1
  /\ sink["c1"].texts = 1

\* C15: a signal of a user other than the requester leaves the request as it
\* was: in the table, its timer armed, its promise unsettled and its
\* continuation not called; a request gets the decision of a user only in a
\* step handling a signal of its requester
C15_OnlyRequesterDecides ==
  [][\A r \in ReqIds :
       /\ \A u \in Users, a \in BOOLEAN :
            (handleApprovalReaction(r, u, a) /\ u # reqs[r].user) =>
              Outcome(reqs'[r]) = Outcome(reqs[r])
       /\ (Count(reqs'[r].calls, "user") > Count(reqs[r].calls, "user")) =>
            \E a \in BOOLEAN : handleApprovalReaction(r, reqs[r].user, a)]_vars

C15_Witness ==
  \E r \in ReqIds :
    /\ "foreign" \in reqs[r].signals
    /\ reqs[r].inTable
    /\ reqs[r].timer = "armed"
    /\ reqs[r].settled = "no"
    /\ reqs[r].calls = <<>>

\* C16: when an await of sendApprovalMessage fails, the request is resolved
\* with the static decision, its record is removed and its timer is cleared,
\* so that the deadline has not fired and will not fire
C16_SendFailureFallback ==
  [][\A r \in ReqIds, b \in Decisions :
       SendFail(r, b) =>
         /\ reqs'[r].settled = "resolved"
         /\ reqs'[r].decision = approveToolRequest(reqs[r].tool, b)
         /\ reqs'[r].calls = <<"fallback">>
         /\ ~reqs'[r].inTable
         /\ reqs'[r].timer = "cleared"]_vars

\* C17: cleanup rejects every request of the table and empties the table; a
\* request it rejected has no armed timer, its timer does not fire, and a
\* signal for it changes nothing
C17_ShutdownRejectsAll ==
  /\ [][cleanup =>
          \A r \in ReqIds :
            /\ ~reqs'[r].inTable
            /\ reqs[r].inTable =>
                 /\ reqs'[r].settled = "rejected"
                 /\ reqs'[r].calls = <<"reject">>]_vars
  /\ [](\A r \in ReqIds :
          reqs[r].settled = "rejected" =>
            /\ ~reqs[r].inTable
            /\ reqs[r].timer = "cleared")
  /\ [][\A r \in ReqIds, u \in Users, a \in BOOLEAN :
          (handleApprovalReaction(r, u, a) /\ reqs[r].settled = "rejected")
            => Outcome(reqs'[r]) = Outcome(reqs[r])]_vars

\* a request rejected by cleanup got a signal of its requester afterwards
C17_Witness ==
  \E r \in ReqIds :
    /\ reqs[r].settled = "rejected"
    /\ reqs[r].calls = <<"reject">>
    /\ "late" \in reqs[r].signals

\* C18: every call of requestApproval settles, resolved or rejected, whether
\* the send of the notification succeeds, fails or never completes and
\* whether or not a user reacts, provided that armed timers fire
C18_EventuallySettles ==
  \A r \in ReqIds : (reqs[r].tool # "none") ~> (reqs[r].settled # "no")

\* the send never completed, nobody reacted, the deadline settled the request
C18_Witness ==
  \E r \in ReqIds :
    /\ reqs[r].send = "fetching"
    /\ reqs[r].signals = {}
    /\ reqs[r].settled = "resolved"
    /\ reqs[r].calls = <<"timeout">>

\* C19: a message of a bot or of a user other than the allowed one, a
\* reaction of a bot or of such a user, and a button pressed by such a user
\* change nothing of the manager or of the approval requests: no handler is
\* admitted, no slot reserved, no process spawned, no session cleared and no
\* request resolved; a handler is admitted only for a message of the allowed
\* user and a request is decided by a user only on a reaction of that user
C19_OnlyAllowedUserDrives ==
  [][/\ \A c \in Channels, a \in Authors \ {"allowed"}, x \in Contents :
          MessageCreate(c, a, x) => UNCHANGED <<lifeVars, permVars>>
     /\ \A r \in ReqIds, who \in Senders, e \in Emojis :
          (~Authorized(who) /\ ReactionAdd(r, who, e))
            => UNCHANGED <<lifeVars, permVars>>
     /\ \A c \in Channels, who \in Senders :
          (~Authorized(who) /\ ButtonClick(c, who))
            => UNCHANGED <<lifeVars, permVars>>
     /\ (\E m \in MsgIds : msgs[m].pc = "none" /\ msgs'[m].pc # "none")
          => \E c \in Channels, x \in Contents :
               MessageCreate(c, "allowed", x)
     /\ \A r \in ReqIds :
          (Count(reqs'[r].calls, "user") > Count(reqs[r].calls, "user"))
            => \E e \in Emojis :
                 ReactionAdd(r, [id |-> allowedUserId, bot |-> FALSE], e)]_vars

\* a message, a reaction and a button of others were seen while a request
\* was waiting for its answer and the channel was free: all is as it was
C19_Witness ==
  /\ {"message", "reaction", "button"} \subseteq sink["c1"].events
  /\ \A m \in MsgIds : msgs[m].pc = "none"
  /\ channelProcesses["c1"] = NoSlot
  /\ reqs[1].inTable /\ reqs[1].msgStored
  /\ reqs[1].timer = "armed"
  /\ reqs[1].calls = <<>>

\* C20: a run whose message was admitted after a /clear of its channel, with
\* no other message of the channel admitted in between, is spawned without
\* a session id to resume, whatever output, continuations and exit of the
\* killed process were still to come when the /clear ran
C20_ClearStartsFresh ==
  \A c \in Channels : \A m \in sink[c].afterClear :
    procs[m].st # "unborn" => procs[m].resume = None

\* C21: the handler of a message reads the session id of its channel when
\* the message is received and keeps it until it launches the run; the
\* command it launches has --resume and that id right after claude, once,
\* when there was an id, and no --resume when there was none
C21_ResumePerChannel ==
  [][\A m \in MsgIds :
       /\ (msgs[m].pc = "none" /\ msgs'[m].pc = "sending")
            => msgs'[m].sessionId = db[msgs'[m].chan]
       /\ (msgs[m].pc # "none" /\ msgs'[m].pc \in {"sending", "reserved"})
            => msgs'[m].sessionId = msgs[m].sessionId
       /\ (procs[m].st = "unborn" /\ procs'[m].st # "unborn") =>
            LET id == msgs[m].sessionId
                cmd == procs'[m].cmd
                at == { i \in 1..Len(cmd) : cmd[i] = "--resume" }
            IN IF id # None
               THEN \E i \in 1..(Len(cmd) - 2) :
                      /\ at = {i + 1}
                      /\ cmd[i] = "claude"
                      /\ cmd[i + 2] = ToString(id)
               ELSE at = {} /\ cmd # <<>>]_vars

\* a run that resumes the session of the run before it
C21_Witness ==
  \E m \in MsgIds :
    /\ procs[m].st = "running"
    /\ procs[m].resume # None
    /\ procs[m].cmd[4] = "--resume"
    /\ procs[m].cmd[5] = ToString(procs[m].resume)

\* C22: a message of the allowed user in a channel whose slot is taken is
\* dropped: no handler is left waiting, nothing is reserved, spawned or
\* signalled, and the slot, the buffers, the tool-call records and the
\* session row stay as they are
C22_BusyRejected ==
  [][\A c \in Channels, x \in Contents :
       (hasActiveProcess(c) /\ MessageCreate(c, "allowed", x))
         => UNCHANGED lifeVars]_vars

\* a message was dropped at the busy check and the run it met goes on
C22_Witness ==
  /\ "busy" \in sink["c1"].events
  /\ hasActiveProcess("c1")
  /\ \E p \in Pids : procs[p].st = "running" /\ ~procs[p].signaled
  /\ \E m \in MsgIds : msgs[m].pc = "none"

\* C23: an operation on one channel (a message being admitted, reserved and
\* spawned, the kill of a reservation, /clear, a chunk of output, a result,
\* an exit, a spawn error, the watchdog) leaves the slot, the stream
\* buffers, the tool-call records and the session row of every other
\* channel as they were
C23_ChannelsIndependent ==
  [][LET ChanState(c) ==
        <<channelProcesses[c], jsonBuffers[c],
          [p \in Pids |-> IF procs[p].chan = c THEN procs[p].buffer ELSE <<>>],
          channelToolCalls[c], Records(channelToolCalls[c]), db[c]>>
      StepOf(c) ==
        \/ \E x \in Contents : NewMessage(c, "allowed", x)
        \/ \E m \in MsgIds, sendOk \in BOOLEAN, dirExists \in BOOLEAN,
              spawnOk \in BOOLEAN, script \in env.scripts :
             msgs[m].chan = c
               /\ MessageSent(m, sendOk, dirExists, spawnOk, script)
        \/ \E p \in Pids :
             /\ procs[p].chan = c
             /\ \/ Data(p)
                \/ ResultThen(p)
                \/ \E code \in ExitCodes : Close(p, code)
                \/ Error(p)
                \/ Timeout(p)
        \/ \E t \in BagToSet(tasks), sendOk \in BOOLEAN :
             t.chan = c /\ AssistantCont(t, sendOk)
        \/ Clear(c)
  IN \A a \in Channels, b \in Channels :
          (a # b /\ StepOf(a)) => ChanState(b)' = ChanState(b)]_vars

\* the run of c1 is over and its slot is free while c2 holds a live run, a
\* decoder buffer, a recorded tool call and a session row
C23_Witness ==
  /\ \E p \in Pids : procs[p].chan = "c1" /\ procs[p].st = "exited"
  /\ channelProcesses["c1"] = NoSlot
  /\ channelProcesses["c2"] # NoSlot
  /\ \E p \in Pids : procs[p].chan = "c2" /\ procs[p].st = "running"
  /\ jsonBuffers["c2"].has
  /\ Records(channelToolCalls["c2"]) # {}
  /\ db["c2"] # None

C26_SpawnErrorHandled ==
  [][\A p \in Pids :
       (procs[p].st = "spawnfail" /\ procs'[p].st # "spawnfail") =>
         /\ procs'[p].st = "errored"
         /\ <<"Process Error", p>> \in sink'[procs[p].chan].notes
         /\ procs'[p].timer = "cleared"
         /\ channelProcesses'[procs[p].chan] = NoSlot
         /\ \A q \in Pids \ {p} : procs'[q] = procs[q]
         /\ msgs' = msgs
         /\ tasks' = tasks]_vars

\* a spawn failed and its "error" event was handled
C26_Witness ==
  \E p \in Pids :
    /\ procs[p].st = "errored"
    /\ procs[p].timer = "cleared"
    /\ <<"Process Error", p>> \in sink[procs[p].chan].notes
    /\ channelProcesses[procs[p].chan] = NoSlot

C28_FinalSegmentCarried ==
  [][\A k \in 1..Len(dec.rest) :
       (Feed(k) /\ dec.rest[k] # NL) =>
         LET segs == SplitNL(dec.jsonBuffer \o dec.buffer
                               \o SubSeq(dec.rest, 1, k))
             n == Len(segs)
         IN /\ dec'.jsonBuffer = segs[n]
            /\ dec'.out = dec.out \o
                 LinesLoop(SubSeq(segs, 1, n - 1), 1,
                           [msgs |-> <<>>, errs |-> 0, rem |-> <<>>]).msgs]_vars

\* C29: a stream whose first line does not parse and whose second line is a
\* result: once it was fed completely, in any chunking, the bad line was
\* logged and is not in the buffer, and the result was dispatched once
C29_BadLineSkipped ==
  (/\ dec.stream = <<"{", "x", NL>> \o Line("r")
   /\ dec.rest = <<>>)
  => /\ dec.out = <<"r">>
     /\ dec.errs >= 1
     /\ dec.jsonBuffer = <<>>

\* C30: after every feed the saved tail is what the stream so far holds
\* after its last newline (nothing, if it ends in a newline); so it holds
\* no newline and nothing of a line that was dispatched
C30_BufferIsTail ==
  LET sofar == SubSeq(dec.stream, 1, Len(dec.stream) - Len(dec.rest))
      segs == SplitNL(sofar)
  IN dec.chunks > 0 => dec.jsonBuffer = segs[Len(segs)]

\* C31: once a stream was fed completely, in whatever chunks, the messages
\* dispatched are those dispatched when the stream is fed as one chunk, in
\* the same order and each once
C31_ChunkingIndependent ==
  dec.rest = <<>> =>
    dec.out = processCompleteJsonMessages(<<>>, dec.stream).msgs

\* C32: while a process that was spawned for a channel is running and was
\* not sent SIGTERM, the channel is busy: no handler of an older process of
\* the channel (close, error, the cleanup after its result) and no handler
\* of another message takes away the slot installed for it
C32_StaleCompletionTolerated ==
  \A p \in Pids : Live(p) => hasActiveProcess(procs[p].chan)

\* C33: once the handlers of an assistant message have finished and no send
\* was rejected, each tool_use entry of the message has one record in the
\* channel's tool-call map and one in-progress embed, whether or not an
\* input is large and whether or not the message has text
C33_OneRecordOneUnit ==
  (/\ tasks = EmptyBag
   /\ sink["c1"].failed = 0
   /\ \E p \in Pids : procs[p].st = "running" /\ procs[p].out = <<>>)
  => \A i \in 1..Len(env.msg.tools) :
       /\ ToString(i) \in Records(channelToolCalls["c1"])
       /\ Cardinality({u \in sink["c1"].notes : u[1] = ToString(i)}) = 1

\* C34: a run wrote an assistant line with the tool_use T1 and after it a
\* user line with a tool_result for T1: once all of its output was handled,
\* every handler has finished and no send or edit was rejected, the embed of
\* T1 was edited to its final state
C34_ToolResultFindsRecord ==
  (/\ \E p \in Pids : /\ procs[p].chan = "c1"
                      /\ procs[p].st = "running"
                      /\ procs[p].out = <<>>
                      /\ procs[p].buffer = <<>>
   /\ env.scripts \subseteq { <<Line("L") \o Line("u")>>,
                              <<Line("L"), Line("u"), Line("r")>> }
   /\ \E j \in 1..Len(env.entries) : env.entries[j] = "T1"
   /\ tasks = EmptyBag
   /\ sink["c1"].failed = 0)
  => "T1" \in sink["c1"].edits

\* C35: a run whose result line was handled and whose handlers have all
\* finished (the cleanup after the result ran, its process is still to
\* exit, no continuation of the run is suspended), in a channel that was not
\* cleared since the message of the run, the latest message so far, was
\* admitted and where no launch threw, leaves the session id of the run in
\* the channel's row
C35_FinalSessionId ==
  \A p \in Pids :
    (/\ procs[p].st = "running"
     /\ procs[p].signaled
     /\ procs[p].timer = "cleared"
     /\ procs[p].out = <<>>
     /\ \A t \in BagToSet(tasks) : t.pid # p
     /\ "cleared" \notin sink[procs[p].chan].events
     /\ \A m \in MsgIds : msgs[m].pc # "none" => m <= p
     /\ \A m \in MsgIds : msgs[m].outcome # "threw")
    => db[procs[p].chan] = p

\* C36: the session row of a channel is removed by the /clear command only:
\* no other step (an exit, a failed spawn, a launch that threw) takes a
\* stored session id away
C36_SessionRemovedOnlyByClear ==
  [][\A c \in Channels :
       (db[c] # None /\ db'[c] = None) => ClearCmd(c)]_vars

\* C37: the table of pending approvals holds exactly the requests whose
\* promise is not settled; a request that left the table has no armed timer;
\* and a settled request keeps its outcome and never returns to the table
C37_TableInvariant ==
  /\ [](\A r \in ReqIds :
          /\ reqs[r].inTable <=>
               (reqs[r].tool # "none" /\ reqs[r].settled = "no")
          /\ ~reqs[r].inTable => reqs[r].timer # "armed")
  /\ [][\A r \in ReqIds :
          reqs[r].settled # "no" =>
            /\ reqs'[r].settled = reqs[r].settled
            /\ reqs'[r].decision = reqs[r].decision
            /\ ~reqs'[r].inTable]_vars

\* a request resolved by its deadline, gone from the table, on which the
\* failure of the send then called the continuation a second time
C37_Witness ==
  \E r \in ReqIds :
    /\ reqs[r].calls = <<"timeout", "fallback">>
    /\ reqs[r].decision.reason = "timeout"
    /\ ~reqs[r].inTable
    /\ reqs[r].timer = "fired"

\* C38: a signal of the requester on the posted notification of a request
\* that is in the table with its timer armed resolves the request with the
\* decision of the signal, whether or not the send has finished
C38_RequesterSignalResolves ==
  [][\A r \in ReqIds, a \in BOOLEAN :
       (/\ handleApprovalReaction(r, reqs[r].user, a)
        /\ reqs[r].notified
        /\ reqs[r].inTable
        /\ reqs[r].timer = "armed") =>
         /\ reqs'[r].settled = "resolved"
         /\ reqs'[r].decision =
              [behavior |-> IF a THEN "allow" ELSE "deny",
               reason |-> "user"]]_vars

\* C39: the resolve and reject continuations of a request are called at most
\* once in total, whichever of the signal, the deadline, the failure of the
\* send and the shutdown come first
C39_ContinuationsCalledOnce ==
  \A r \in ReqIds : Len(reqs[r].calls) <= 1

====
